---- MODULE Spec2Model ----
(***************************************************************************)
(* A model of the grade-sheet core of GradeEX2: the text pipeline          *)
(* (find_student_blocks, parse_student_record, validate_student_record,    *)
(* process_pdf of the three extractors) and the geometric pipeline         *)
(* (detect_horizontal_lines, _deduplicate_lines,                           *)
(* detect_student_boundaries, crop_single_student, crop_multiple_students).*)
(*                                                                         *)
(* Text is modelled at character level: a Python str is a TLA+ string, an  *)
(* index is 1-based, and every regular expression of the source is an      *)
(* operator that scans the characters the way re does (leftmost match,     *)
(* greedy repetition with the backtracking the pattern allows).            *)
(* Numbers read by float() from the text are exact rationals               *)
(* <<numerator, denominator>> in lowest terms; the y coordinates of the    *)
(* geometric pipeline are IEEE 754 binary64 values, rounded as Python      *)
(* rounds them.                                                            *)
(***************************************************************************)
EXTENDS Integers, Sequences, FiniteSets, TLC

(***************************************************************************)
(* Characters and strings                                                  *)
(***************************************************************************)
Digit == {"0", "1", "2", "3", "4", "5", "6", "7", "8", "9"}

UpperCase == {"A", "B", "C", "D", "E", "F", "G", "H", "I", "J", "K", "L", "M",
              "N", "O", "P", "Q", "R", "S", "T", "U", "V", "W", "X", "Y", "Z"}

\* \s of the re module, restricted to the two blanks the page text holds
WhiteSpace == {" ", "\n"}

\* s[i-1] of Python, "" outside the string
CharAt(s, i) == IF i >= 1 /\ i <= Len(s) THEN SubSeq(s, i, i) ELSE ""

\* s[i-1:j-1] of Python: the characters i .. j-1
Slice(s, i, j) == IF i >= j THEN "" ELSE SubSeq(s, i, j - 1)

\* s[i-1:] of Python
From(s, i) == Slice(s, i, Len(s) + 1)

\* s.startswith(p)
StartsWith(s, p) == Len(p) <= Len(s) /\ SubSeq(s, 1, Len(p)) = p

\* s[i-1:].startswith(p)
StartsWithAt(s, i, p) == i + Len(p) - 1 <= Len(s) /\ Slice(s, i, i + Len(p)) = p

\* p in s
Contains(s, p) == \E i \in 1..(Len(s) - Len(p) + 1) : StartsWithAt(s, i, p)

\* the least j in i..n with P(j), and 0 when there is none: the left-to-right
\* scan of re.search and of str.find
First(i, n, P(_)) ==
    IF \E j \in i..n : P(j)
    THEN CHOOSE j \in i..n : P(j) /\ \A k \in i..(j - 1) : ~P(k)
    ELSE 0

\* Body applied to a value that is computed once: a local variable of the code
With(value, Body(_)) == Body(value)

\* s.find(p, i-1) + 1, and 0 when p is not in s[i-1:]
FindFrom(s, p, i) ==
    First(i, Len(s) - Len(p) + 1, LAMBDA k : StartsWithAt(s, k, p))

\* the end of the greedy run \d* that starts at i (the first index after it)
DigitRunEnd(s, i) ==
    IF i > Len(s) THEN i
    ELSE First(i, Len(s) + 1, LAMBDA j : CharAt(s, j) \notin Digit)

\* the end of the greedy run \s* that starts at i
SpaceRunEnd(s, i) ==
    IF i > Len(s) THEN i
    ELSE First(i, Len(s) + 1, LAMBDA j : CharAt(s, j) \notin WhiteSpace)

\* the start of the whitespace run that ends just before index i
SpaceRunStart(s, i) ==
    IF i <= 1 THEN i
    ELSE i - First(0, i - 1, LAMBDA d : CharAt(s, i - 1 - d) \notin WhiteSpace)

\* str.lstrip(), str.rstrip(), str.strip()
LStrip(s) == From(s, SpaceRunEnd(s, 1))
RStrip(s) == Slice(s, 1, SpaceRunStart(s, Len(s) + 1))
Strip(s) == RStrip(LStrip(s))

\* str.isdigit() on the ASCII digits
IsDigitStr(s) == s # "" /\ \A i \in 1..Len(s) : CharAt(s, i) \in Digit

DigitVal(c) ==
    CASE c = "0" -> 0 [] c = "1" -> 1 [] c = "2" -> 2 [] c = "3" -> 3
      [] c = "4" -> 4 [] c = "5" -> 5 [] c = "6" -> 6 [] c = "7" -> 7
      [] c = "8" -> 8 [] c = "9" -> 9

\* int(s) for a string of digits
RECURSIVE IntOf(_)
IntOf(s) ==
    IF s = "" THEN 0
    ELSE 10 * IntOf(Slice(s, 1, Len(s))) + DigitVal(CharAt(s, Len(s)))

\* sep.join(parts)
RECURSIVE Join(_, _)
Join(parts, sep) ==
    IF Len(parts) = 0 THEN ""
    ELSE IF Len(parts) = 1 THEN parts[1]
    ELSE parts[1] \o sep \o Join(Tail(parts), sep)

\* s.split(c) for a one-character separator c (always at least one piece)
RECURSIVE SplitOn(_, _)
SplitOn(s, c) ==
    With(FindFrom(s, c, 1), LAMBDA k :
        IF k = 0 THEN <<s>>
        ELSE <<Slice(s, 1, k)>> \o SplitOn(From(s, k + 1), c))

\* the first index at or after i that holds whitespace (Len(s)+1 when none)
WordEnd(s, i) ==
    IF i > Len(s) THEN i
    ELSE First(i, Len(s) + 1, LAMBDA j : j > Len(s) \/ CharAt(s, j) \in WhiteSpace)

\* s.split(): the maximal runs of non-blank characters
RECURSIVE SplitWords(_)
SplitWords(s) ==
    With(SpaceRunEnd(s, 1), LAMBDA b :
    With(WordEnd(s, b), LAMBDA e :
        IF b > Len(s) THEN <<>>
        ELSE <<Slice(s, b, e)>> \o SplitWords(From(s, e))))

\* re.sub(r'\s+', ' ', s).strip()
\* the concatenation of a sequence of sequences
RECURSIVE Flatten(_)
Flatten(seqs) == IF seqs = <<>> THEN <<>> ELSE Head(seqs) \o Flatten(Tail(seqs))

NormalizeSpace(s) == Join(SplitWords(s), " ")

(***************************************************************************)
(* Numbers: exact rationals <<n, d>> with d > 0 in lowest terms, so that   *)
(* equal numbers are equal values                                          *)
(***************************************************************************)
Abs(x) == IF x < 0 THEN -x ELSE x

RECURSIVE GCD(_, _)
GCD(a, b) == IF b = 0 THEN a ELSE GCD(b, a % b)

Rat(n, d) == LET g == GCD(Abs(n), d) IN <<n \div g, d \div g>>
RatOfInt(n) == <<n, 1>>
RatAdd(p, q) == Rat(p[1] * q[2] + q[1] * p[2], p[2] * q[2])
RatSub(p, q) == Rat(p[1] * q[2] - q[1] * p[2], p[2] * q[2])
RatDivInt(p, k) == Rat(p[1], p[2] * k)
RatLess(p, q) == p[1] * q[2] < q[1] * p[2]
RatLeq(p, q) == p[1] * q[2] <= q[1] * p[2]

RECURSIVE Pow10(_)
Pow10(k) == IF k = 0 THEN 1 ELSE 10 * Pow10(k - 1)

\* Python's None, and a present value
None == <<>>
Some(v) == <<v>>

\* float(s) for the shapes the rows hold: [+-]digits, [+-]digits.digits,
\* [+-]digits. and [+-].digits ; None stands for ValueError.  (float's other
\* spellings: exponents, inf, nan, underscores, are not among the tokens.)
FloatOf(s) ==
    With(IF CharAt(s, 1) \in {"+", "-"} THEN 2 ELSE 1, LAMBDA b :
    With(DigitRunEnd(s, b), LAMBDA d :
    With(CharAt(s, d) = ".", LAMBDA dot :
    With(IF dot THEN DigitRunEnd(s, d + 1) ELSE d, LAMBDA e :
    With(Slice(s, b, d), LAMBDA ip :
    With(IF dot THEN Slice(s, d + 1, e) ELSE "", LAMBDA fp :
    With(Rat(IntOf(ip \o fp), Pow10(Len(fp))), LAMBDA mag :
        IF e = Len(s) + 1 /\ (ip # "" \/ fp # "")
        THEN Some(IF CharAt(s, 1) = "-" THEN <<-mag[1], mag[2]>> ELSE mag)
        ELSE None)))))))

(***************************************************************************)
(* The regular expressions of the extractors                               *)
(***************************************************************************)
\* re.match(r'^\d{9}\s+[A-Z]', line.strip())        extract_grades.py:223
IsSeatLine(line) ==
    With(Strip(line), LAMBDA t :
        /\ \A i \in 1..9 : CharAt(t, i) \in Digit
        /\ CharAt(t, 10) \in WhiteSpace
        /\ CharAt(t, SpaceRunEnd(t, 10)) \in UpperCase)

\* re.match(r'^\(MU\d+', line.strip())               extract_grades.py:225
IsErnLine(line) ==
    With(Strip(line), LAMBDA t : StartsWith(t, "(MU") /\ CharAt(t, 4) \in Digit)

\* (\d{7})\s*: at index i
CodeAt(s, i) ==
    /\ \A k \in i..(i + 6) : CharAt(s, k) \in Digit
    /\ CharAt(s, SpaceRunEnd(s, i + 7)) = ":"

\* re.findall(r'(\d{7})\s*:', s[i-1:])               extract_grades.py:304
RECURSIVE FindAllCodes(_, _)
FindAllCodes(s, i) ==
    With(First(i, Len(s), LAMBDA k : CodeAt(s, k)), LAMBDA m :
        IF m = 0 THEN <<>>
        ELSE <<Slice(s, m, m + 7)>> \o FindAllCodes(s, SpaceRunEnd(s, m + 7) + 1))

\* the seen-set loop that keeps a code's first occurrence   extract_grades.py:305-310
RECURSIVE DedupCodes(_, _)
DedupCodes(codes, seen) ==
    IF codes = <<>> THEN <<>>
    ELSE IF Head(codes) \in seen THEN DedupCodes(Tail(codes), seen)
    ELSE <<Head(codes)>> \o DedupCodes(Tail(codes), seen \cup {Head(codes)})

\* re.search(r'\(MU(\d+)', s[i-1:]): 'MU' + group 1, None without a match
SearchErn(s, i) ==
    With(First(i, Len(s), LAMBDA k : StartsWithAt(s, k, "(MU")
                                          /\ CharAt(s, k + 3) \in Digit),
         LAMBDA m :
        IF m = 0 THEN None
        ELSE Some("MU" \o Slice(s, m + 3, DigitRunEnd(s, m + 3))))

\* re.search(r'(MU-\d+):\s*(.+?)(?:\s*$|$)', s[i-1:]) on a one-line string:
\* <<group 1, group 2 stripped>>, None without a match.  The lazy group ends
\* where only blanks are left, so stripped it is the stripped rest.
CollegeAt(s, i) ==
    With(DigitRunEnd(s, i + 3), LAMBDA d :
        /\ StartsWithAt(s, i, "MU-")
        /\ d > i + 3
        /\ CharAt(s, d) = ":"
        /\ d < Len(s))

SearchCollege(s, i) ==
    With(First(i, Len(s), LAMBDA k : CollegeAt(s, k)), LAMBDA m :
    With(DigitRunEnd(s, m + 3), LAMBDA d :
        IF m = 0 THEN None
        ELSE Some(<<Slice(s, m, d), Strip(From(s, d + 1))>>)))

\* re.sub(r'\s*MARKS.*$', '', re.sub(r'^E1\s+', '', line))   extract_grades.py:371-372
ExternalContent(line) ==
    With(IF StartsWith(line, "E1") /\ CharAt(line, 3) \in WhiteSpace
         THEN From(line, SpaceRunEnd(line, 3))
         ELSE line, LAMBDA c :
    With(FindFrom(c, "MARKS", 1), LAMBDA k :
        IF k = 0 THEN c ELSE Slice(c, 1, SpaceRunStart(c, k))))

\* a pattern without the failed-subject alternative: (\d+)\s*P alone
PassFormOnly(s, a) == 0

\* 0\s+F\s+\d+\.\d+ at index a: the end of the match, 0 without one
FailTailEnd(s, a) ==
    With(SpaceRunEnd(s, a + 1), LAMBDA b :
    With(SpaceRunEnd(s, b + 1), LAMBDA c :
    With(DigitRunEnd(s, c), LAMBDA d :
        IF /\ CharAt(s, a) = "0"
           /\ CharAt(s, a + 1) \in WhiteSpace
           /\ CharAt(s, b) = "F"
           /\ CharAt(s, b + 1) \in WhiteSpace
           /\ CharAt(s, c) \in Digit
           /\ CharAt(s, d) = "."
           /\ CharAt(s, d + 1) \in Digit
        THEN DigitRunEnd(s, d + 1)
        ELSE 0)))

\* (\d+)\s*(?:P|0\s+F\s+\d+\.\d+) at index i with the digits i .. d-1 taken
\* first and then one digit fewer at a time, as re backtracks \d+
RECURSIVE ExternalMatch(_, _, _)
ExternalMatch(s, i, d) ==
    IF d <= i THEN [e |-> 0, d |-> 0]
    ELSE With(SpaceRunEnd(s, d), LAMBDA a :
         With(FailTailEnd(s, a), LAMBDA f :
             IF CharAt(s, a) = "P" THEN [e |-> a + 1, d |-> d]
             ELSE IF f # 0 THEN [e |-> f, d |-> d]
             ELSE ExternalMatch(s, i, d - 1)))

\* [int(m.group(1)) for m in re.finditer(...)] from index i   extract_grades.py:376-377
RECURSIVE ExternalMarks(_, _)
ExternalMarks(s, i) ==
    With(First(i, Len(s), LAMBDA j : ExternalMatch(s, j, DigitRunEnd(s, j)).e # 0),
         LAMBDA k :
        IF k = 0 THEN <<>>
        ELSE With(ExternalMatch(s, k, DigitRunEnd(s, k)), LAMBDA m :
                 <<IntOf(Slice(s, k, m.d))>> \o ExternalMarks(s, m.e)))

\* [int(m) for m in re.findall(r'(\d+)\s*P', s[i-1:])]     extract_grades.py:390,396
\* (\d+)\s*P at index i
InternalAt(s, i) ==
    /\ CharAt(s, i) \in Digit
    /\ CharAt(s, SpaceRunEnd(s, DigitRunEnd(s, i))) = "P"

RECURSIVE InternalMarks(_, _)
InternalMarks(s, i) ==
    With(First(i, Len(s), LAMBDA j : InternalAt(s, j)), LAMBDA k :
    With(DigitRunEnd(s, k), LAMBDA d :
        IF k = 0 THEN <<>>
        ELSE <<IntOf(Slice(s, k, d))>> \o InternalMarks(s, SpaceRunEnd(s, d) + 1)))

\* re.search(r'\((\d+)\)\s*(?:PASS|FAIL)', s[i-1:]): int(group 1), None without
TotalMarksAt(s, i) ==
    With(DigitRunEnd(s, i + 1), LAMBDA d :
    With(SpaceRunEnd(s, d + 1), LAMBDA a :
        /\ CharAt(s, i) = "("
        /\ d > i + 1
        /\ CharAt(s, d) = ")"
        /\ (StartsWithAt(s, a, "PASS") \/ StartsWithAt(s, a, "FAIL"))))

SearchTotalMarks(s, i) ==
    With(First(i, Len(s), LAMBDA k : TotalMarksAt(s, k)), LAMBDA m :
        IF m = 0 THEN None
        ELSE Some(IntOf(Slice(s, m + 1, DigitRunEnd(s, m + 1)))))

\* re.search(r'(\d+\.\d+)\s*$', s[i-1:]): the start of the leftmost match, 0 without
TrailingDecimalAt(s, i) ==
    With(DigitRunEnd(s, i), LAMBDA d :
    With(DigitRunEnd(s, d + 1), LAMBDA e :
        /\ d > i
        /\ CharAt(s, d) = "."
        /\ e > d + 1
        /\ SpaceRunEnd(s, e) = Len(s) + 1))

SearchTrailingDecimal(s, i) == First(i, Len(s), LAMBDA k : TrailingDecimalAt(s, k))

\* re.search(r'(\d+)\s*$', s[i-1:]): the start of the leftmost match, 0 without
TrailingIntAt(s, i) ==
    With(DigitRunEnd(s, i), LAMBDA d : d > i /\ SpaceRunEnd(s, d) = Len(s) + 1)

SearchTrailingInt(s, i) == First(i, Len(s), LAMBDA k : TrailingIntAt(s, k))

(***************************************************************************)
(* parse_student_record of the full extractor (extract_grades.py:244-470)  *)
(***************************************************************************)
\* the student dict as initialised at extract_grades.py:265-286
EmptyStudent(page_number) ==
    [seat_no |-> None, name |-> None, status |-> None, gender |-> None,
     ern |-> None, college |-> None, college_code |-> None,
     subject_codes |-> <<>>, external_marks |-> <<>>, internal_marks |-> <<>>,
     total_marks_list |-> <<>>, grade_points |-> <<>>, grades |-> <<>>,
     credits |-> <<>>, grade_credits |-> <<>>, total_marks |-> None,
     result |-> None, sgpa |-> None, total_credits |-> None,
     page_number |-> page_number]

\* [l.strip() for l in lines if l.strip()]
RECURSIVE StripNonEmpty(_)
StripNonEmpty(lines) ==
    IF lines = <<>> THEN <<>>
    ELSE IF Strip(Head(lines)) = "" THEN StripNonEmpty(Tail(lines))
    ELSE <<Strip(Head(lines))>> \o StripNonEmpty(Tail(lines))

\* lines = [l.strip() for l in block_text.split('\n') if l.strip()]
BlockLines(block_text) == StripNonEmpty(SplitOn(block_text, "\n"))

\* the lines before the first line that starts with E1   extract_grades.py:291-295
RECURSIVE HeaderLines(_)
HeaderLines(lines) ==
    IF lines = <<>> \/ StartsWith(Head(lines), "E1") THEN <<>>
    ELSE <<Head(lines)>> \o HeaderLines(Tail(lines))

\* the first header line that is a seat-number line, None without one
RECURSIVE FindSeatLine(_)
FindSeatLine(header_lines) ==
    IF header_lines = <<>> THEN None
    ELSE IF IsSeatLine(Head(header_lines)) THEN Some(Head(header_lines))
    ELSE FindSeatLine(Tail(header_lines))

status_keywords == {"Regular", "ATKT", "Ex-Student"}
gender_keywords == {"MALE", "FEMALE", "OTHER"}

\* the 0-based index of the first token at or after i that is a status
\* keyword, None without one                          extract_grades.py:334-339
RECURSIVE FirstStatusIdx(_, _)
FirstStatusIdx(tokens, i) ==
    IF i >= Len(tokens) THEN None
    ELSE IF tokens[i + 1] \in status_keywords THEN Some(i)
    ELSE FirstStatusIdx(tokens, i + 1)

\* tokens[a:b] of Python (0-based, b exclusive)
PySlice(seq, a, b) == SubSeq(seq, a + 1, b)

\* seat number, status, name and gender from the seat line  extract_grades.py:325-349
SeatLineFields(student, seat_line) ==
    With(SplitWords(seat_line), LAMBDA tokens :
    With(FirstStatusIdx(tokens, 0), LAMBDA status_idx :
    With(status_idx # None /\ status_idx[1] # 0, LAMBDA found :
    With(IF status_idx = None THEN 0 ELSE status_idx[1], LAMBDA idx :
        IF tokens # <<>> /\ Len(tokens[1]) = 9 /\ IsDigitStr(tokens[1])
        THEN [student EXCEPT
                !.seat_no = Some(tokens[1]),
                !.status = IF status_idx = None THEN None ELSE Some(tokens[idx + 1]),
                !.name = IF found /\ idx > 1
                         THEN Some(Join(PySlice(tokens, 1, idx), " "))
                         ELSE None,
                !.gender = IF found /\ idx + 1 < Len(tokens)
                              /\ tokens[idx + 2] \in gender_keywords
                           THEN Some(tokens[idx + 2])
                           ELSE None]
        ELSE student))))

\* the header section and the subject codes              extract_grades.py:288-364
ParseHeader(block_text, page_number, page_subject_codes) ==
    With(HeaderLines(BlockLines(block_text)), LAMBDA header_lines :
    With(NormalizeSpace(Join(header_lines, " ")), LAMBDA header :
    With(DedupCodes(FindAllCodes(block_text, 1), {}), LAMBDA block_codes :
    With(IF block_codes = <<>> /\ page_subject_codes # <<>>
         THEN page_subject_codes
         ELSE block_codes, LAMBDA subject_codes :
    With(FindSeatLine(header_lines), LAMBDA seat_line :
    With([EmptyStudent(page_number) EXCEPT !.subject_codes = subject_codes], LAMBDA s0 :
    With(IF seat_line # None THEN SeatLineFields(s0, seat_line[1]) ELSE s0, LAMBDA s1 :
    With(SearchCollege(header, 1), LAMBDA college_match :
        [s1 EXCEPT
           !.ern = SearchErn(header, 1),
           !.college_code = IF college_match = None THEN None
                            ELSE Some(college_match[1][1]),
           !.college = IF college_match = None THEN None
                       ELSE Some(college_match[1][2])]))))))))

\* if num_subject_codes > 0 and len(marks) > num_subject_codes:
\*     marks = marks[:num_subject_codes]                 extract_grades.py:380-381
ClipToCodes(marks, num_subject_codes) ==
    IF num_subject_codes > 0 /\ Len(marks) > num_subject_codes
    THEN SubSeq(marks, 1, num_subject_codes)
    ELSE marks

\* the E1 branch                                         extract_grades.py:368-383
ParseExternalRow(student, line) ==
    [student EXCEPT !.external_marks =
        ClipToCodes(ExternalMarks(ExternalContent(line), 1), Len(student.subject_codes))]

\* the I1 branch                                         extract_grades.py:386-407
ParseInternalRow(student, line) ==
    With(SplitOn(line, "(")[1], LAMBDA marks_portion :
    With(SearchTotalMarks(line, 1), LAMBDA total_match :
        [student EXCEPT
           !.internal_marks =
               ClipToCodes(InternalMarks(marks_portion, 1), Len(student.subject_codes)),
           !.total_marks = IF total_match # None THEN total_match ELSE @,
           !.result = IF Contains(line, "PASS") THEN Some("PASS")
                      ELSE IF Contains(line, "FAIL") THEN Some("FAIL")
                      ELSE @]))

\* a right-to-left part that peels the SGPA and then goes straight to the total
\* credits, leaving the sum of G*C on the line
TotTailKeepingSum(student, line) ==
    With(SearchTrailingDecimal(line, 1), LAMBDA a :
    With(IF a # 0 THEN Strip(Slice(line, 1, a)) ELSE line, LAMBDA l1 :
    With(SearchTrailingInt(l1, 1), LAMBDA c :
    With(IF c # 0 THEN Strip(Slice(l1, 1, c)) ELSE l1, LAMBDA l3 :
        [student |-> [student EXCEPT
                        !.sgpa = IF a # 0 THEN FloatOf(Strip(From(line, a))) ELSE @,
                        !.total_credits =
                            IF c # 0 THEN Some(IntOf(Strip(From(l1, c)))) ELSE @],
         parts |-> SplitWords(l3)]))))

\* the right-to-left part of the TOT branch: the SGPA, the sum of G*C and the
\* total credits are peeled off the end of the line      extract_grades.py:414-433
TotTail(student, line) ==
    With(SearchTrailingDecimal(line, 1), LAMBDA a :
    With(IF a # 0 THEN Strip(Slice(line, 1, a)) ELSE line, LAMBDA l1 :
    With(SearchTrailingDecimal(l1, 1), LAMBDA b :
    With(IF b # 0 THEN Strip(Slice(l1, 1, b)) ELSE l1, LAMBDA l2 :
    With(SearchTrailingInt(l2, 1), LAMBDA c :
    With(IF c # 0 THEN Strip(Slice(l2, 1, c)) ELSE l2, LAMBDA l3 :
        [student |-> [student EXCEPT
                        !.sgpa = IF a # 0 THEN FloatOf(Strip(From(line, a))) ELSE @,
                        !.total_credits =
                            IF c # 0 THEN Some(IntOf(Strip(From(l2, c)))) ELSE @],
         parts |-> SplitWords(l3)]))))))

\* not grade.replace('+', '').replace('-', '').isdigit()
IsGradeToken(grade) ==
    LET kept == {i \in 1..Len(grade) : CharAt(grade, i) \notin {"+", "-"}}
    IN  ~(kept # {} /\ \A i \in kept : CharAt(grade, i) \in Digit)

\* whether parts[i .. i+4] is taken as one subject       extract_grades.py:439-448
AcceptsQuintuple(parts, i) ==
    /\ IsDigitStr(parts[i + 1])
    /\ 0 <= IntOf(parts[i + 1]) /\ IntOf(parts[i + 1]) <= 50
    /\ i + 4 < Len(parts)
    /\ IsDigitStr(parts[i + 2])
    /\ IsGradeToken(parts[i + 3])

\* the five appends of an accepted subject               extract_grades.py:449-459
AppendQuintuple(student, parts, i) ==
    [student EXCEPT
       !.total_marks_list = Append(@, IntOf(parts[i + 1])),
       !.grade_points = Append(@, IntOf(parts[i + 2])),
       !.grades = Append(@, parts[i + 3]),
       !.credits = Append(@, With(FloatOf(parts[i + 4]), LAMBDA credit :
                                 IF credit # None THEN credit[1] ELSE <<2, 1>>)),
       !.grade_credits = Append(@, FloatOf(parts[i + 5]))]

\* The parser as a machine: the header, then `for line in lines` (phase
\* "rows", li the 1-based line), with the while loop of the TOT branch
\* stepped one iteration at a time (phase "tot", i the 0-based token index).
ParseInit(block_text, page_number, page_subject_codes) ==
    [student |-> ParseHeader(block_text, page_number, page_subject_codes),
     lines |-> BlockLines(block_text),
     li |-> 1, phase |-> "rows", parts |-> <<>>, i |-> 0]

\* a loop that looks at the tokens alone and not at the number of subjects taken
ScanContinuesAnyCount(ps) == ps.i < Len(ps.parts)

\* the guard of `while i < len(parts) and len(total_marks_list) < num_subject_codes`
ScanContinues(ps) ==
    /\ ps.i < Len(ps.parts)
    /\ Len(ps.student.total_marks_list) < Len(ps.student.subject_codes)

ParseStep(ps) ==
    IF ps.phase = "rows"
    THEN IF ps.li > Len(ps.lines) THEN [ps EXCEPT !.phase = "done"]
         ELSE With(ps.lines[ps.li], LAMBDA line :
                  IF StartsWith(line, "E1")
                  THEN [ps EXCEPT !.student = ParseExternalRow(@, line), !.li = @ + 1]
                  ELSE IF StartsWith(line, "I1")
                  THEN [ps EXCEPT !.student = ParseInternalRow(@, line), !.li = @ + 1]
                  ELSE IF StartsWith(line, "TOT")
                  THEN With(TotTail(ps.student, line), LAMBDA tail :
                           [ps EXCEPT !.student = tail.student, !.parts = tail.parts,
                                      !.i = 1, !.phase = "tot"])
                  ELSE [ps EXCEPT !.li = @ + 1])
    ELSE IF ps.phase = "tot"
    THEN IF ~ScanContinues(ps)
         THEN [ps EXCEPT !.phase = "rows", !.li = @ + 1]
         ELSE IF AcceptsQuintuple(ps.parts, ps.i)
         THEN [ps EXCEPT !.student = AppendQuintuple(@, ps.parts, ps.i), !.i = @ + 5]
         ELSE [ps EXCEPT !.i = @ + 1]
    ELSE ps

RECURSIVE ParseRun(_)
ParseRun(ps) == IF ps.phase = "done" THEN ps ELSE ParseRun(ParseStep(ps))

parse_student_record(block_text, page_number, page_subject_codes) ==
    ParseRun(ParseInit(block_text, page_number, page_subject_codes)).student

\* `not student.get(field)`: None and '' are falsy
Falsy(opt) == opt = None \/ opt[1] = ""

\* a validator that looks at the four required fields alone
ValidateFieldsOnly(student) ==
    /\ ~Falsy(student.seat_no)
    /\ ~Falsy(student.name)
    /\ ~Falsy(student.status)
    /\ ~Falsy(student.result)

\* validate_student_record                               extract_grades.py:472-508
validate_student_record(student) ==
    /\ ~Falsy(student.seat_no)
    /\ ~Falsy(student.name)
    /\ ~Falsy(student.status)
    /\ ~Falsy(student.result)
    /\ Len(student.external_marks) # 0
    /\ Len(student.internal_marks) = Len(student.external_marks)
    /\ Len(student.total_marks_list) = Len(student.external_marks)
    /\ Len(student.grades) = Len(student.external_marks)

(***************************************************************************)
(* The identity-only decoders                                              *)
(*   parse_student_basic_info, validate_student_record                     *)
(*                                      extract_grades_simple.py:195-313   *)
(*   extract_student_basic_info              extract_simple.py:117-197     *)
(***************************************************************************)
LowerChars == "abcdefghijklmnopqrstuvwxyz"
UpperChars == "ABCDEFGHIJKLMNOPQRSTUVWXYZ"
LowerCase == {CharAt(LowerChars, j) : j \in 1..26}

\* c.upper() of one character
UpperChar(c) ==
    LET k == First(1, 26, LAMBDA j : CharAt(LowerChars, j) = c)
    IN  IF k = 0 THEN c ELSE CharAt(UpperChars, k)

\* p in s.upper(), for an upper-case p
UpperContains(s, p) ==
    \E i \in 1..(Len(s) - Len(p) + 1) :
        \A k \in 1..Len(p) : UpperChar(CharAt(s, i + k - 1)) = CharAt(p, k)

\* s.upper() == p, for an upper-case p
UpperEquals(s, p) ==
    Len(s) = Len(p) /\ \A k \in 1..Len(p) : UpperChar(CharAt(s, k)) = CharAt(p, k)

\* s.isupper() and s.isalpha()
IsUpperStr(s) ==
    /\ \E i \in 1..Len(s) : CharAt(s, i) \in UpperCase
    /\ \A i \in 1..Len(s) : CharAt(s, i) \notin LowerCase
IsAlphaStr(s) == s # "" /\ \A i \in 1..Len(s) : CharAt(s, i) \in UpperCase \cup LowerCase

\* \w, and \b between the characters i - 1 and i
WordChar(c) == c \in Digit \cup UpperCase \cup LowerCase \cup {"_"}
WordBoundaryAt(s, i) == WordChar(CharAt(s, i - 1)) # WordChar(CharAt(s, i))

\* the tokens after the seat number up to the first stop word, the upper-case
\* alphabetic ones of them                           extract_grades_simple.py:245-252
name_stop_words == {"REGULAR", "ATKT", "EX-STUDENT", "FEMALE", "MALE"}

IsNameStop(token) ==
    (\E w \in name_stop_words : UpperEquals(token, w)) \/ StartsWith(token, "(")

NameTokensOf(tokens) ==
    With(First(2, Len(tokens), LAMBDA j : IsNameStop(tokens[j])), LAMBDA stop :
        SelectSeq(SubSeq(tokens, 2, IF stop = 0 THEN Len(tokens) ELSE stop - 1),
                  LAMBDA t : IsUpperStr(t) /\ IsAlphaStr(t)))

\* re.search(r'(MU-\d+):\s*(.+?)(?:\s+\d{7}|$)', header) on a one-line string:
\* <<group 1, group 2 stripped>>, None without a match
\*                                                    extract_grades_simple.py:281
CollegeBasicAt(s, i) ==
    With(DigitRunEnd(s, i + 3), LAMBDA d :
        StartsWithAt(s, i, "MU-") /\ d > i + 3 /\ CharAt(s, d) = ":" /\ d < Len(s))

SevenDigitsAfterSpace(s, e) ==
    /\ CharAt(s, e) \in WhiteSpace
    /\ \A k \in 0..6 : CharAt(s, SpaceRunEnd(s, e) + k) \in Digit

SearchCollegeBasic(s) ==
    With(First(1, Len(s), LAMBDA k : CollegeBasicAt(s, k)), LAMBDA m :
    With(DigitRunEnd(s, m + 3), LAMBDA d :
    With(SpaceRunEnd(s, d + 1), LAMBDA g :
    With(First(g + 1, Len(s), LAMBDA k : SevenDigitsAfterSpace(s, k)), LAMBDA e :
        IF m = 0 THEN None
        ELSE IF g > Len(s) THEN Some(<<Slice(s, m, d), "">>)
        ELSE Some(<<Slice(s, m, d),
                    Strip(Slice(s, g, IF e = 0 THEN Len(s) + 1 ELSE e))>>)))))

\* the first line that starts with I1, None without one
FirstInternalLine(lines) ==
    With(First(1, Len(lines), LAMBDA j : StartsWith(lines[j], "I1")), LAMBDA k :
        IF k = 0 THEN None ELSE Some(lines[k]))

parse_student_basic_info(block_text, page_number) ==
    With(BlockLines(block_text), LAMBDA lines :
    With(HeaderLines(lines), LAMBDA header_lines :
    With(NormalizeSpace(Join(header_lines, " ")), LAMBDA header :
    With(FindSeatLine(header_lines), LAMBDA seat_line :
    With(IF seat_line = None THEN <<>> ELSE SplitWords(seat_line[1]), LAMBDA tokens :
    With(tokens # <<>> /\ Len(tokens[1]) = 9 /\ IsDigitStr(tokens[1]), LAMBDA has_seat :
    With(IF has_seat THEN NameTokensOf(tokens) ELSE <<>>, LAMBDA name_tokens :
    With(SearchCollegeBasic(header), LAMBDA college_match :
    With(FirstInternalLine(lines), LAMBDA i1 :
        [seat_no |-> IF has_seat THEN Some(tokens[1]) ELSE None,
         name |-> IF name_tokens # <<>> THEN Some(Join(name_tokens, " ")) ELSE None,
         first_name |-> IF name_tokens # <<>> THEN Some(name_tokens[1]) ELSE None,
         status |-> IF seat_line = None THEN None
                    ELSE IF UpperContains(seat_line[1], "REGULAR") THEN Some("Regular")
                    ELSE IF UpperContains(seat_line[1], "ATKT") THEN Some("ATKT")
                    ELSE IF UpperContains(seat_line[1], "EX-STUDENT") THEN Some("Ex-Student")
                    ELSE None,
         gender |-> IF seat_line = None THEN None
                    ELSE IF UpperContains(seat_line[1], "FEMALE") THEN Some("F")
                    ELSE IF UpperContains(seat_line[1], "MALE") THEN Some("M")
                    ELSE None,
         ern |-> SearchErn(header, 1),
         college |-> IF college_match = None THEN None ELSE Some(college_match[1][2]),
         college_code |-> IF college_match = None THEN None ELSE Some(college_match[1][1]),
         result |-> IF i1 = None THEN None
                    ELSE IF UpperContains(i1[1], "PASS") THEN Some("PASS")
                    ELSE IF UpperContains(i1[1], "FAIL") THEN Some("FAIL")
                    ELSE None,
         page_number |-> page_number])))))))))

\* validate_student_record                      extract_grades_simple.py:297-313
validate_basic_record(student) ==
    ~Falsy(student.seat_no) /\ ~Falsy(student.name) /\ ~Falsy(student.result)

\* the keywords that end the name in extract_simple.py's seat pattern
name_end_keywords == {"Regular", "Repeater", "ATKT", "Ex-Student", "MALE", "FEMALE"}

KeywordAfterSpace(s, e) ==
    /\ CharAt(s, e) \in WhiteSpace
    /\ \E w \in name_end_keywords : StartsWithAt(s, SpaceRunEnd(s, e), w)

\* the end of the lazy name group that starts at a, 0 when the pattern fails
NameGroupEnd(s, a) ==
    With(First(a + 1, Len(s), LAMBDA j : CharAt(s, j) \notin UpperCase \cup WhiteSpace),
         LAMBDA stop :
        First(a + 2, IF stop = 0 THEN Len(s) ELSE stop - 1,
              LAMBDA e : KeywordAfterSpace(s, e)))

\* \b(\d{9})\s+([A-Z][A-Z\s]+?)(?:\s+(?:Regular|...)|(?:\s+(?:MALE|FEMALE))) at k
SeatNameAt(s, k) ==
    With(SpaceRunEnd(s, k + 9), LAMBDA a :
        /\ WordBoundaryAt(s, k)
        /\ \A j \in k..(k + 8) : CharAt(s, j) \in Digit
        /\ CharAt(s, k + 9) \in WhiteSpace
        /\ CharAt(s, a) \in UpperCase
        /\ NameGroupEnd(s, a) # 0)

\* re.search of that pattern: <<group 1, group 2>>, None without a match
SearchSeatName(s) ==
    With(First(1, Len(s), LAMBDA j : SeatNameAt(s, j)), LAMBDA k :
    With(SpaceRunEnd(s, k + 9), LAMBDA a :
        IF k = 0 THEN None
        ELSE Some(<<Slice(s, k, k + 9), Slice(s, a, NameGroupEnd(s, a))>>)))

\* re.search(r'\(MU(\d+)\)', s): 'MU' + group 1, None without a match
SearchErnClosed(s) ==
    With(First(1, Len(s), LAMBDA k : /\ StartsWithAt(s, k, "(MU")
                                     /\ CharAt(s, k + 3) \in Digit
                                     /\ CharAt(s, DigitRunEnd(s, k + 3)) = ")"),
         LAMBDA m :
        IF m = 0 THEN None
        ELSE Some("MU" \o Slice(s, m + 3, DigitRunEnd(s, m + 3))))

\* re.search(r'\b(w1|w2|...)\b', s): the word matched, None without a match
WholeWordAt(s, k, w) ==
    StartsWithAt(s, k, w) /\ WordBoundaryAt(s, k) /\ WordBoundaryAt(s, k + Len(w))

SearchWholeWord(s, words) ==
    With(First(1, Len(s), LAMBDA k : \E w \in words : WholeWordAt(s, k, w)), LAMBDA m :
        IF m = 0 THEN None
        ELSE Some(CHOOSE w \in words : WholeWordAt(s, m, w)))

\* re.search(r'(MU-\d+):\s*(.+?)(?:\s+E1|\s+MAR|\s*$)', s) on a one-line string
CollegeEndAt(s, e) ==
    With(SpaceRunEnd(s, e), LAMBDA a :
        \/ /\ CharAt(s, e) \in WhiteSpace
           /\ StartsWithAt(s, a, "E1") \/ StartsWithAt(s, a, "MAR")
        \/ a > Len(s))

SearchCollegeSimple(s) ==
    With(First(1, Len(s), LAMBDA k : CollegeBasicAt(s, k)), LAMBDA m :
    With(DigitRunEnd(s, m + 3), LAMBDA d :
    With(SpaceRunEnd(s, d + 1), LAMBDA g :
    With(First(g + 1, Len(s) + 1, LAMBDA k : CollegeEndAt(s, k)), LAMBDA e :
        IF m = 0 THEN None
        ELSE IF g > Len(s) THEN Some(<<Slice(s, m, d), "">>)
        ELSE Some(<<Slice(s, m, d), Strip(Slice(s, g, e))>>)))))

\* the student dict as built at extract_simple.py:127-186
SimpleStudent(full_text, page_number, student_index) ==
    With(SearchSeatName(full_text), LAMBDA seat_match :
    With(IF seat_match = None THEN None
         ELSE Some(NormalizeSpace(seat_match[1][2])), LAMBDA name :
    With(IF name = None THEN <<>> ELSE SplitWords(name[1]), LAMBDA name_words :
    With(SearchWholeWord(full_text, {"Regular", "Repeater", "ATKT", "Ex-Student"}),
         LAMBDA status_match :
    With(SearchWholeWord(full_text, {"MALE", "FEMALE"}), LAMBDA gender_match :
    With(SearchCollegeSimple(full_text), LAMBDA college_match :
            [ern |-> SearchErnClosed(full_text),
             name |-> name,
             first_name |-> IF name_words = <<>> THEN None ELSE Some(name_words[1]),
             seat_no |-> IF seat_match = None THEN None ELSE Some(seat_match[1][1]),
             status |-> status_match,
             gender |-> IF gender_match = None THEN None
                        ELSE Some(CharAt(gender_match[1], 1)),
             result |-> IF Contains(full_text, "PASS") \/ Contains(full_text, "PAS")
                        THEN Some("PASS")
                        ELSE IF Contains(full_text, "FAIL") \/ Contains(full_text, "FAI")
                        THEN Some("FAIL")
                        ELSE None,
             page_number |-> page_number,
             student_index |-> student_index,
             college_code |-> IF college_match = None THEN None
                              ELSE Some(college_match[1][1]),
             college_name |-> IF college_match = None THEN None
                              ELSE Some(college_match[1][2])]))))))

\* the dict, or None for an incomplete record           extract_simple.py:117-197
extract_student_basic_info(block_text, page_number, student_index) ==
    With(SimpleStudent(Join(BlockLines(block_text), " "), page_number, student_index),
         LAMBDA student :
        IF Falsy(student.seat_no) \/ Falsy(student.name) \/ Falsy(student.result)
        THEN None
        ELSE Some(student))

(***************************************************************************)
(* The exam title line, the catalog and the other document-level data      *)
(*   extract_index_data                        extract_grades.py:83-198    *)
(*   extract_exam_metadata             extract_grades_simple.py:81-140     *)
(*   extract_exam_metadata                     extract_simple.py:24-72     *)
(***************************************************************************)
\* the end of the run of \w characters that starts at i
WordRunEnd(s, i) ==
    IF i > Len(s) THEN i ELSE First(i, Len(s) + 1, LAMBDA j : ~WordChar(CharAt(s, j)))

\* HELD IN (\w+)\s+(\d{4}) at index k
HeldInAt(s, k) ==
    With(WordRunEnd(s, k + 8), LAMBDA w :
    With(SpaceRunEnd(s, w), LAMBDA y :
        /\ StartsWithAt(s, k, "HELD IN ")
        /\ w > k + 8
        /\ y > w
        /\ \A j \in y..(y + 3) : CharAt(s, j) \in Digit))

\* re.search(r'HELD IN (\w+)\s+(\d{4})', s): <<group 1, int(group 2)>>
SearchHeldIn(s) ==
    With(First(1, Len(s), LAMBDA j : HeldInAt(s, j)), LAMBDA k :
    With(WordRunEnd(s, k + 8), LAMBDA w :
    With(SpaceRunEnd(s, w), LAMBDA y :
        IF k = 0 THEN None
        ELSE Some(<<Slice(s, k + 8, w), IntOf(Slice(s, y, y + 4))>>))))

RomanDigits == {"I", "V", "X"}
RomanRunEnd(s, i) ==
    IF i > Len(s) THEN i ELSE First(i, Len(s) + 1, LAMBDA j : CharAt(s, j) \notin RomanDigits)

\* \(\s*Semester\s*-\s*([IVX]+)\s*\) at index k: the group's bounds, or <<>>
SemesterAt(s, k) ==
    With(SpaceRunEnd(s, k + 1), LAMBDA a :
    With(SpaceRunEnd(s, a + 8), LAMBDA b :
    With(SpaceRunEnd(s, b + 1), LAMBDA c :
    With(RomanRunEnd(s, c), LAMBDA d :
        IF /\ CharAt(s, k) = "("
           /\ StartsWithAt(s, a, "Semester")
           /\ CharAt(s, b) = "-"
           /\ d > c
           /\ CharAt(s, SpaceRunEnd(s, d)) = ")"
        THEN <<c, d>>
        ELSE <<>>))))

\* re.search of that pattern: 'Semester - ' + group 1, None without a match
SearchSemester(s) ==
    With(First(1, Len(s), LAMBDA j : SemesterAt(s, j) # <<>>), LAMBDA k :
    With(SemesterAt(s, k), LAMBDA m :
        IF k = 0 THEN None
        ELSE Some("Semester - " \o Slice(s, m[1], m[2]))))

\* A lazy group (.+?) that follows a greedy \s+ starting at index a: the
\* blanks are given back one at a time until the group, which starts after
\* them, can end at an index where Ends holds.  <<start, end>>, or <<>>.
LazyAfterBlanks(s, a, Ends(_)) ==
    With(SpaceRunEnd(s, a), LAMBDA g :
    With(First(0, g - a - 1, LAMBDA x : First(g - x + 1, Len(s) + 1, Ends) # 0),
         LAMBDA d :
        IF g > a /\ \E x \in 0..(g - a - 1) : First(g - x + 1, Len(s) + 1, Ends) # 0
        THEN <<g - d, First(g - d + 1, Len(s) + 1, Ends)>>
        ELSE <<>>))

\* FOR THE\s+(.+?)\s*\( at index k: the group's bounds, or <<>>
ProgramAt(s, k) ==
    IF StartsWithAt(s, k, "FOR THE")
    THEN LazyAfterBlanks(s, k + 7, LAMBDA e : CharAt(s, SpaceRunEnd(s, e)) = "(")
    ELSE <<>>

\* re.search of that pattern: group 1 stripped, None without a match
SearchProgram(s) ==
    With(First(1, Len(s), LAMBDA j : ProgramAt(s, j) # <<>>), LAMBDA k :
    With(ProgramAt(s, k), LAMBDA m :
        IF k = 0 THEN None
        ELSE Some(Strip(Slice(s, m[1], m[2])))))

\* ^(\d{7})\s+(.+?)\s+2\.00\s+8\.00 on a line: <<code, name>>, or None
CreditsAt(s, e) ==
    With(SpaceRunEnd(s, e), LAMBDA a :
    With(SpaceRunEnd(s, a + 4), LAMBDA b :
        /\ CharAt(s, e) \in WhiteSpace
        /\ StartsWithAt(s, a, "2.00")
        /\ b > a + 4
        /\ StartsWithAt(s, b, "8.00")))

MatchCatalogLine(line) ==
    With(LazyAfterBlanks(line, 8, LAMBDA e : CreditsAt(line, e)), LAMBDA m :
        IF (\A j \in 1..7 : CharAt(line, j) \in Digit) /\ m # <<>>
        THEN Some(<<Slice(line, 1, 8), NormalizeSpace(Slice(line, m[1], m[2]))>>)
        ELSE None)

\* str(cell): a cell is None or Some(text)
CellStr(cell) == IF cell = None THEN "None" ELSE cell[1]

\* what a table row contributes: <<code, name>>, or None   extract_grades.py:163-172
MatchCatalogRow(row) ==
    With(Strip(CellStr(row[1])), LAMBDA first_cell :
        IF Len(row) >= 2 /\ Len(first_cell) = 7 /\ IsDigitStr(first_cell)
        THEN Some(<<first_cell, NormalizeSpace(CellStr(row[2]))>>)
        ELSE None)

\* A dict is the list of its <<key, value>> items in insertion order.
DictKeys(dict) == {dict[k][1] : k \in 1..Len(dict)}

\* dict[key] = value: the value of an item that exists is replaced in place
DictSet(dict, key, value) ==
    IF key \in DictKeys(dict)
    THEN [k \in 1..Len(dict) |-> IF dict[k][1] = key THEN <<key, value>> ELSE dict[k]]
    ELSE Append(dict, <<key, value>>)

\* subject_mapping = {} ; subject_order = []            extract_grades.py:93-94
EmptyCatalog == [subject_mapping |-> <<>>, subject_order |-> <<>>]

\* the keys of subject_mapping
CatalogCodes(catalog) == DictKeys(catalog.subject_mapping)

\* an entry that is written whether or not the code has one
AddEntryOverwriting(catalog, found) ==
    IF found = None
    THEN catalog
    ELSE [subject_mapping |-> DictSet(catalog.subject_mapping, found[1][1], found[1][2]),
          subject_order |-> Append(catalog.subject_order, found[1][1])]

\* if code not in subject_mapping:
\*     subject_mapping[code] = full_name
\*     subject_order.append(code)           extract_grades.py:171-173, 185-187
AddEntry(catalog, found) ==
    IF found = None \/ found[1][1] \in CatalogCodes(catalog)
    THEN catalog
    ELSE [subject_mapping |-> DictSet(catalog.subject_mapping, found[1][1], found[1][2]),
          subject_order |-> Append(catalog.subject_order, found[1][1])]

RECURSIVE AddAll(_, _)
AddAll(catalog, founds) ==
    IF founds = <<>> THEN catalog
    ELSE AddAll(AddEntry(catalog, Head(founds)), Tail(founds))

\* 'SEAT NO' not in text
is_index_page(page_text) == ~Contains(page_text, "SEAT NO")

\* the catalog after one page                           extract_grades.py:152-187
CatalogAfterPage(catalog, page) ==
    With(Flatten(page.tables), LAMBDA rows :
    With(SplitOn(page.text, "\n"), LAMBDA lines :
        IF is_index_page(page.text)
        THEN AddAll(AddAll(catalog, [k \in 1..Len(rows) |-> MatchCatalogRow(rows[k])]),
                    [k \in 1..Len(lines) |-> MatchCatalogLine(lines[k])])
        ELSE catalog))

RECURSIVE CatalogOf(_, _)
CatalogOf(catalog, pages) ==
    IF pages = <<>> THEN catalog
    ELSE CatalogOf(IF Head(pages).text = "" THEN catalog
                   ELSE CatalogAfterPage(catalog, Head(pages)),
                   Tail(pages))

\* the title line of page 1 and what is read from it    extract_grades.py:111-141
TitleData(text) ==
    With(SplitOn(text, "\n"), LAMBDA lines :
    With(First(1, Len(lines), LAMBDA j : Contains(lines[j], "Bachelor")
                                        \/ Contains(lines[j], "OFFICE REGISTER")),
         LAMBDA k :
    With(lines[k], LAMBDA line :
    With(SearchHeldIn(line), LAMBDA held :
        IF k = 0
        THEN [exam_title |-> None, exam_month |-> None, exam_year |-> None,
              parsed_program_name |-> None, parsed_semester |-> None,
              parsed_exam_type |-> None]
        ELSE [exam_title |-> Some(Strip(line)),
              exam_month |-> IF held = None THEN None ELSE Some(held[1][1]),
              exam_year |-> IF held = None THEN None ELSE Some(held[1][2]),
              parsed_program_name |-> SearchProgram(line),
              parsed_semester |-> SearchSemester(line),
              parsed_exam_type |-> IF Contains(line, "SUPPLEMENTARY") THEN Some("SUPPLEMENTARY")
                                   ELSE IF Contains(line, "REGULAR") THEN Some("REGULAR")
                                   ELSE None]))))

footer_markers == {"#:", "@:", "ADC:", "AA/ABS:"}

\* the footer lines of page 1 joined, None without one  extract_grades.py:143-150
FooterData(text) ==
    With(SelectSeq(SplitOn(text, "\n"),
                   LAMBDA l : \E mk \in footer_markers : Contains(l, mk)), LAMBDA kept :
        IF kept = <<>> THEN None
        ELSE Some(Join([k \in 1..Len(kept) |-> Strip(kept[k])], "\n")))

\* pages[:20]
MaxIndexPages == 20

extract_index_data(pages) ==
    With(IF pages = <<>> THEN "" ELSE pages[1].text, LAMBDA first :
    With(CatalogOf(EmptyCatalog, SubSeq(pages, 1, IF Len(pages) < MaxIndexPages THEN Len(pages)
                                          ELSE MaxIndexPages)), LAMBDA catalog :
        [title |-> TitleData(first),
         footer_metadata |-> IF first = "" THEN None ELSE FooterData(first),
         subject_mapping |-> catalog.subject_mapping,
         subject_order |-> catalog.subject_order]))

\* Declaration Date:\s*(\w+\s+\d+,\s+\d{4}) at index k: the bounds of the
\* month word, the day digits and the year digits, or <<>>
DeclarationAt(s, k) ==
    With(SpaceRunEnd(s, k + 17), LAMBDA a :
    With(WordRunEnd(s, a), LAMBDA w :
    With(SpaceRunEnd(s, w), LAMBDA b :
    With(DigitRunEnd(s, b), LAMBDA d :
    With(SpaceRunEnd(s, d + 1), LAMBDA c :
        IF /\ StartsWithAt(s, k, "Declaration Date:")
           /\ w > a /\ b > w /\ d > b
           /\ CharAt(s, d) = ","
           /\ c > d + 1
           /\ \A j \in c..(c + 3) : CharAt(s, j) \in Digit
        THEN [month |-> <<a, w>>, day |-> <<b, d>>, year |-> <<c, c + 4>>]
        ELSE <<>>)))))

\* re.search of that pattern: the bounds, or <<>>
SearchDeclaration(s) ==
    With(First(1, Len(s), LAMBDA j : DeclarationAt(s, j) # <<>>), LAMBDA k :
        IF k = 0 THEN <<>> ELSE DeclarationAt(s, k))

month_names == <<"JANUARY", "FEBRUARY", "MARCH", "APRIL", "MAY", "JUNE", "JULY",
                 "AUGUST", "SEPTEMBER", "OCTOBER", "NOVEMBER", "DECEMBER">>

\* the month a word names under %b (its first three letters) or %B, 0 for none
MonthOf(word) ==
    First(1, 12, LAMBDA m : \/ UpperEquals(word, SubSeq(month_names[m], 1, 3))
                            \/ UpperEquals(word, month_names[m]))

DaysIn(month, year) ==
    IF month = 2
    THEN IF year % 4 = 0 /\ (year % 100 # 0 \/ year % 400 = 0) THEN 29 ELSE 28
    ELSE IF month \in {4, 6, 9, 11} THEN 30 ELSE 31

DecimalDigits == "0123456789"
RECURSIVE StrOfNat(_)
StrOfNat(n) ==
    IF n < 10 THEN CharAt(DecimalDigits, n + 1)
    ELSE StrOfNat(n \div 10) \o CharAt(DecimalDigits, (n % 10) + 1)
TwoDigits(n) == IF n < 10 THEN "0" \o StrOfNat(n) ELSE StrOfNat(n)

\* datetime.strptime(date_str, '%b %d, %Y'), then with '%B', to '%Y-%m-%d';
\* date_str itself when neither parses           extract_grades_simple.py:121-134
\* (%Y prints a year below 1000 without padding, as the C library does)
ReformatDate(s, m) ==
    With(MonthOf(Slice(s, m.month[1], m.month[2])), LAMBDA month :
    With(Slice(s, m.day[1], m.day[2]), LAMBDA day_str :
    With(IntOf(day_str), LAMBDA day :
    With(IntOf(Slice(s, m.year[1], m.year[2])), LAMBDA year :
        IF /\ month # 0
           /\ Len(day_str) <= 2
           /\ day >= 1 /\ year >= 1
           /\ day <= DaysIn(month, year)
        THEN StrOfNat(year) \o "-" \o TwoDigits(month) \o "-" \o TwoDigits(day)
        ELSE Slice(s, m.month[1], m.year[2])))))

NoMetadata ==
    [exam_title |-> None, exam_month |-> None, exam_year |-> None,
     declaration_date |-> None]

\* extract_exam_metadata(first_page): <<>> is the empty dict of a page without
\* text                                            extract_grades_simple.py:81-140
ExamMetadataBasic(text) ==
    With(SplitOn(text, "\n"), LAMBDA lines :
    With(First(1, Len(lines), LAMBDA j : Contains(lines[j], "OFFICE REGISTER FOR THE")),
         LAMBDA t :
    With(Strip(lines[t]), LAMBDA exam_title :
    With(SearchHeldIn(exam_title), LAMBDA held :
    With(First(1, Len(lines), LAMBDA j : Contains(lines[j], "Declaration Date")),
         LAMBDA d :
    With(SearchDeclaration(lines[d]), LAMBDA date_match :
        IF text = "" THEN <<>>
        ELSE <<[exam_title |-> IF t = 0 THEN None ELSE Some(exam_title),
                exam_month |-> IF t = 0 \/ held = None THEN None ELSE Some(held[1][1]),
                exam_year |-> IF t = 0 \/ held = None THEN None ELSE Some(held[1][2]),
                declaration_date |->
                    IF d = 0 \/ date_match = <<>> THEN None
                    ELSE Some(ReformatDate(lines[d], date_match))]>>))))))

\* OFFICE REGISTER FOR THE (.+): group 1 stripped, None without a match
SearchTitle(line) ==
    With(FindFrom(line, "OFFICE REGISTER FOR THE ", 1), LAMBDA k :
        IF k = 0 \/ k + 24 > Len(line) THEN None
        ELSE Some(Strip(From(line, k + 24))))

\* extract_exam_metadata(pages)                           extract_simple.py:24-72
ExamMetadataSimple(pages) ==
    With(pages[1].text, LAMBDA text :
    With(SplitOn(text, "\n"), LAMBDA lines :
    With(First(1, Len(lines), LAMBDA j : Contains(lines[j], "OFFICE REGISTER FOR")),
         LAMBDA t :
    With(SearchHeldIn(lines[t]), LAMBDA held :
    With(First(1, IF Len(lines) < 20 THEN Len(lines) ELSE 20,
               LAMBDA j : SearchDeclaration(lines[j]) # <<>>), LAMBDA d :
    With(SearchDeclaration(lines[d]), LAMBDA date_match :
        IF pages = <<>> \/ text = "" THEN NoMetadata
        ELSE [exam_title |-> IF t = 0 THEN None ELSE SearchTitle(lines[t]),
              exam_month |-> IF t = 0 \/ held = None THEN None ELSE Some(held[1][1]),
              exam_year |-> IF t = 0 \/ held = None THEN None ELSE Some(held[1][2]),
              declaration_date |->
                  IF d = 0 THEN None
                  ELSE Some(Slice(lines[d], date_match.month[1], date_match.year[2]))]))))))

(***************************************************************************)
(* find_student_blocks          extract_grades.py:200-242 ("grades"),      *)
(*                       extract_grades_simple.py:158-193 ("grades_simple"),*)
(*                              extract_simple.py:80-115 ("simple")        *)
(* Indices are Python's: line i of the page is lines[i + 1] here.          *)
(***************************************************************************)
ExtractorKinds == {"grades", "grades_simple", "simple"}

\* A mutation: the block starts at the seat-number line, whatever precedes it.
StartIndexAtAnchor(lines, i) ==
    IF IsSeatLine(Strip(lines[i + 1])) THEN Some(i) ELSE None

\* what the first loop appends for line i, None when it appends nothing
\*                       extract_grades.py:221-228, extract_grades_simple.py:172-179
StartIndexAt(lines, i) ==
    IF IsSeatLine(Strip(lines[i + 1]))
    THEN IF i > 0 /\ IsErnLine(Strip(lines[i])) THEN Some(i - 1) ELSE Some(i)
    ELSE None

\* the same in extract_simple.py, which looks at the previous line first
\*                                                        extract_simple.py:91-100
StartIndexAtSimple(lines, i) ==
    IF i > 0 /\ IsErnLine(Strip(lines[i])) /\ IsSeatLine(Strip(lines[i + 1]))
    THEN Some(i - 1)
    ELSE IF IsSeatLine(Strip(lines[i + 1])) THEN Some(i) ELSE None

StartIndexFor(kind, lines, i) ==
    IF kind = "simple" THEN StartIndexAtSimple(lines, i) ELSE StartIndexAt(lines, i)

\* a block that ends one line into the next block
BlockEndPastNextStart(student_start_indices, i, num_lines) ==
    IF i + 1 < Len(student_start_indices)
    THEN student_start_indices[i + 2] + 1
    ELSE num_lines

\* end = student_start_indices[i + 1] if i + 1 < len(...) else len(lines)
BlockEnd(student_start_indices, i, num_lines) ==
    IF i + 1 < Len(student_start_indices)
    THEN student_start_indices[i + 2]
    ELSE num_lines

\* the test that keeps a block             extract_grades.py:239, extract_simple.py:112
BlockRetained(kind, block_text) ==
    IF kind = "simple"
    THEN Contains(block_text, "I1") /\ Contains(block_text, "TOT")
    ELSE Contains(block_text, "E1") /\ Contains(block_text, "I1")
         /\ Contains(block_text, "TOT")

\* The function as a machine: phase "scan" is the first loop at line i, phase
\* "cut" the second loop at start index i.  A block is kept with the slice
\* lines[start:end] it was cut from.
SegInit(page_text) ==
    [lines |-> SplitOn(page_text, "\n"), phase |-> "scan", i |-> 0,
     student_start_indices |-> <<>>, blocks |-> <<>>]

SegScan(kind, sg) ==
    With(StartIndexFor(kind, sg.lines, sg.i), LAMBDA found :
    With(sg.i + 1 = Len(sg.lines), LAMBDA last :
        [sg EXCEPT !.student_start_indices = IF found = None THEN @ ELSE Append(@, found[1]),
                   !.i = IF last THEN 0 ELSE @ + 1,
                   !.phase = IF last THEN "cut" ELSE "scan"]))

SegCut(kind, sg) ==
    With(sg.student_start_indices[sg.i + 1], LAMBDA start :
    With(BlockEnd(sg.student_start_indices, sg.i, Len(sg.lines)), LAMBDA end :
    With(Join(PySlice(sg.lines, start, end), "\n"), LAMBDA block_text :
        [sg EXCEPT !.blocks = IF BlockRetained(kind, block_text)
                              THEN Append(@, [start |-> start, end |-> end,
                                              text |-> block_text])
                              ELSE @,
                   !.i = @ + 1])))

SegReturned(sg) == sg.phase = "cut" /\ sg.i = Len(sg.student_start_indices)

RECURSIVE SegRun(_, _)
SegRun(kind, sg) ==
    IF SegReturned(sg) THEN sg
    ELSE IF sg.phase = "scan" THEN SegRun(kind, SegScan(kind, sg))
    ELSE SegRun(kind, SegCut(kind, sg))

\* the returned list of block texts
find_student_blocks(kind, page_text) ==
    With(SegRun(kind, SegInit(page_text)).blocks, LAMBDA blocks :
        [k \in 1..Len(blocks) |-> blocks[k].text])

(***************************************************************************)
(* process_pdf                                 extract_grades.py:510-606   *)
(*                                     extract_grades_simple.py:315-379    *)
(*                                             extract_simple.py:199-253   *)
(* A page is [text, tables]: what extract_text and extract_tables return,  *)
(* "" for a page without text.  page_num is Python's 0-based index.        *)
(***************************************************************************)
\* the valid records of a list of blocks, in block order   extract_grades.py:581-595
RECURSIVE DecodeBlocks(_, _, _)
DecodeBlocks(blocks, page_number, page_subject_codes) ==
    IF blocks = <<>> THEN <<>>
    ELSE With(parse_student_record(Head(blocks), page_number, page_subject_codes),
              LAMBDA student :
             (IF validate_student_record(student) THEN <<student>> ELSE <<>>)
             \o DecodeBlocks(Tail(blocks), page_number, page_subject_codes))

\*                                              extract_grades_simple.py:363-373
RECURSIVE DecodeBlocksBasic(_, _)
DecodeBlocksBasic(blocks, page_number) ==
    IF blocks = <<>> THEN <<>>
    ELSE With(parse_student_basic_info(Head(blocks), page_number), LAMBDA student :
             (IF validate_basic_record(student) THEN <<student>> ELSE <<>>)
             \o DecodeBlocksBasic(Tail(blocks), page_number))

\* for student_index, block in enumerate(blocks)         extract_simple.py:237-242
DecodeBlocksSimple(blocks, page_number) ==
    Flatten([k \in 1..Len(blocks) |->
                extract_student_basic_info(blocks[k], page_number, k - 1)])

\* whether the page loop passes over the page without cutting blocks
PageSkipped(kind, page_num, page_text) ==
    IF kind = "grades"
    THEN page_num < 1 \/ page_text = ""
    ELSE page_text = "" \/ is_index_page(page_text)

\* the blocks the page loop cuts out of a page it does not pass over
PageBlocks(kind, page_num, page_text) ==
    IF PageSkipped(kind, page_num, page_text) THEN <<>>
    ELSE find_student_blocks(kind, page_text)

\* the records one iteration of the page loop appends to all_students
PageStudents(kind, page_num, page_text) ==
    With(PageBlocks(kind, page_num, page_text), LAMBDA blocks :
        IF kind = "grades"
        THEN DecodeBlocks(blocks, page_num + 1, DedupCodes(FindAllCodes(page_text, 1), {}))
        ELSE IF kind = "grades_simple" THEN DecodeBlocksBasic(blocks, page_num)
        ELSE DecodeBlocksSimple(blocks, page_num))

\* process_pdf up to the page loop: the document-level data, or the
\* IndexError of pdf.pages[0] on a document without pages
DocOpened(kind, pages) ==
    With(extract_index_data(pages), LAMBDA index_data :
    With([phase |-> "pages", page_num |-> 0, all_students |-> <<>>,
          found |-> <<>>, subject_mapping |-> <<>>, subject_order |-> <<>>,
          exam_metadata |-> <<>>, saved |-> None, frame |-> None], LAMBDA base :
        IF kind = "grades"
        THEN [base EXCEPT !.subject_mapping = index_data.subject_mapping,
                          !.subject_order = index_data.subject_order,
                          !.exam_metadata = <<[title |-> index_data.title,
                                               footer_metadata |-> index_data.footer_metadata]>>]
        ELSE IF kind = "grades_simple"
        THEN IF pages = <<>> THEN [base EXCEPT !.phase = "raised"]
             ELSE [base EXCEPT !.exam_metadata = ExamMetadataBasic(pages[1].text)]
        ELSE [base EXCEPT !.exam_metadata = <<ExamMetadataSimple(pages)>>]))

\* one iteration of `for page_num, page in enumerate(pdf.pages)`; found keeps
\* the number of blocks cut out of each page
DocAfterPage(kind, pages, d) ==
    With(pages[d.page_num + 1].text, LAMBDA page_text :
        [d EXCEPT !.all_students = @ \o PageStudents(kind, d.page_num, page_text),
                  !.found = Append(@, Len(PageBlocks(kind, d.page_num, page_text))),
                  !.page_num = @ + 1])

\* ---------------------------------------------------------------------------
\* What is done with the dict process_pdf returns: save_to_database and
\* _create_dataframe.  extracted_data['subject_mapping'] is the dict the
\* extractor holds, not a copy.
\* ---------------------------------------------------------------------------
\* the classes models.py defines                                models.py:28-107
ModelsClasses == {"Program", "Examination", "Student", "StudentExamRecord"}

\* from models import ...                                 extract_grades.py:622
SaveImports ==
    {"Program", "Examination", "Student", "StudentExamRecord", "Subject", "Grade"}

\* dict.get(key, default)
DictGet(dict, key, default) ==
    With(First(1, Len(dict), LAMBDA k : dict[k][1] = key), LAMBDA k :
        IF k = 0 THEN default ELSE dict[k][2])

\* the mapping after the first n codes of a student went through lines 742-751:
\* a code it lacks is entered as Subject_<code>
RECURSIVE SavedCodes(_, _, _)
SavedCodes(subject_mapping, codes, n) ==
    IF n = 0 THEN subject_mapping
    ELSE With(SavedCodes(subject_mapping, codes, n - 1), LAMBDA m :
        IF codes[n] \in DictKeys(m) THEN m
        ELSE DictSet(m, codes[n], "Subject_" \o codes[n]))

Min(a, b) == IF a <= b THEN a ELSE b

\* the same for the first n students; a student without ern is skipped
RECURSIVE SavedStudents(_, _, _)
SavedStudents(subject_mapping, students, n) ==
    IF n = 0 THEN subject_mapping
    ELSE With(SavedStudents(subject_mapping, students, n - 1), LAMBDA m :
        IF Falsy(students[n].ern) THEN m
        ELSE SavedCodes(m, students[n].subject_codes,
                        Min(Len(students[n].external_marks),
                            Len(students[n].subject_codes))))

\* save_to_database: what it returns and what it leaves of the mapping.  The
\* import of line 622 is inside the try block; a name models.py does not
\* define raises ImportError, which the handler of line 786 answers with
\* False.  The rows the statements after the import would write are not
\* modelled.
save_to_database(subject_mapping, students, db_session) ==
    IF ~db_session
    THEN [returned |-> FALSE, subject_mapping |-> subject_mapping]
    ELSE IF ~(SaveImports \subseteq ModelsClasses)
    THEN [returned |-> FALSE, subject_mapping |-> subject_mapping]
    ELSE [returned |-> TRUE,
          subject_mapping |-> SavedStudents(subject_mapping, students, Len(students))]

\* re.sub(r'[^a-zA-Z0-9]+', '_', s): in_run tells that the character before
\* was replaced
RECURSIVE SubNonAlnum(_, _)
SubNonAlnum(s, in_run) ==
    IF s = "" THEN ""
    ELSE IF CharAt(s, 1) \in Digit \cup UpperCase \cup LowerCase
    THEN CharAt(s, 1) \o SubNonAlnum(SubSeq(s, 2, Len(s)), FALSE)
    ELSE (IF in_run THEN "" ELSE "_") \o SubNonAlnum(SubSeq(s, 2, Len(s)), TRUE)

\* s.strip('_')
RECURSIVE StripUnderscores(_)
StripUnderscores(s) ==
    IF s = "" THEN ""
    ELSE IF CharAt(s, 1) = "_" THEN StripUnderscores(SubSeq(s, 2, Len(s)))
    ELSE IF CharAt(s, Len(s)) = "_" THEN StripUnderscores(SubSeq(s, 1, Len(s) - 1))
    ELSE s

SafeName(subject_name) == StripUnderscores(SubNonAlnum(subject_name, FALSE))

\* A mutation: the lookup enters the fallback name of a code the mapping lacks.
LookedUpEntering(subject_mapping, subject_code) ==
    [name |-> DictGet(subject_mapping, subject_code, "Subject_" \o subject_code),
     subject_mapping |-> IF subject_code \in DictKeys(subject_mapping)
                         THEN subject_mapping
                         ELSE DictSet(subject_mapping, subject_code,
                                      "Subject_" \o subject_code)]

\* subject_mapping.get(subject_code, f'Subject_{subject_code}'): the name, and
\* the mapping as the lookup leaves it               extract_grades.py:837
LookedUp(subject_mapping, subject_code) ==
    [name |-> DictGet(subject_mapping, subject_code, "Subject_" \o subject_code),
     subject_mapping |-> subject_mapping]

\* the five columns of a subject with a code, the four of one without
SubjectColumns(record, student, safe_name, n, coded) ==
    DictSet(DictSet(DictSet(DictSet(
        IF coded THEN DictSet(record, safe_name \o "_Code", student.subject_codes[n])
        ELSE record,
        safe_name \o "_External", student.external_marks[n]),
        safe_name \o "_Internal", student.internal_marks[n]),
        safe_name \o "_Total", student.total_marks_list[n]),
        safe_name \o "_Grade", student.grades[n])

\* the record of a student, a dict of columns, and the mapping after the
\* student's first n subjects
RECURSIVE FrameSubjects(_, _, _)
FrameSubjects(acc, student, n) ==
    IF n = 0 THEN acc
    ELSE With(FrameSubjects(acc, student, n - 1), LAMBDA a :
        IF n <= Len(student.subject_codes)
        THEN With(LookedUp(a.subject_mapping, student.subject_codes[n]), LAMBDA found :
                 [record |-> SubjectColumns(a.record, student, SafeName(found.name), n, TRUE),
                  subject_mapping |-> found.subject_mapping])
        ELSE [record |-> SubjectColumns(a.record, student, "Subject_" \o StrOfNat(n),
                                        n, FALSE),
              subject_mapping |-> a.subject_mapping])

\* the columns of a student before its subjects
FrameBase(student) ==
    <<<<"Seat_No", student.seat_no>>, <<"Name", student.name>>, <<"ERN", student.ern>>,
      <<"Status", student.status>>, <<"Gender", student.gender>>,
      <<"College_Code", student.college_code>>, <<"College", student.college>>,
      <<"Total_Marks", student.total_marks>>, <<"Result", student.result>>,
      <<"SGPA", student.sgpa>>, <<"Total_Credits", student.total_credits>>,
      <<"Page_Number", student.page_number>>>>

\* whether a row is too short for the subjects of the external row: the
\* indexing of line 847, 848 or 849 raises IndexError
FrameRaises(student) ==
    \/ Len(student.internal_marks) < Len(student.external_marks)
    \/ Len(student.total_marks_list) < Len(student.external_marks)
    \/ Len(student.grades) < Len(student.external_marks)

\* the records and the mapping after the first n students
RECURSIVE FrameStudents(_, _, _)
FrameStudents(subject_mapping, students, n) ==
    IF n = 0 THEN [records |-> <<>>, subject_mapping |-> subject_mapping]
    ELSE With(FrameStudents(subject_mapping, students, n - 1), LAMBDA before :
         With(FrameSubjects([record |-> FrameBase(students[n]),
                             subject_mapping |-> before.subject_mapping],
                            students[n], Len(students[n].external_marks)), LAMBDA a :
             [records |-> Append(before.records, a.record),
              subject_mapping |-> a.subject_mapping]))

\* _create_dataframe: the records of the frame (None where it raises) and
\* what it leaves of the mapping
_create_dataframe(subject_mapping, students) ==
    IF \E k \in 1..Len(students) : FrameRaises(students[k])
    THEN [frame |-> None, subject_mapping |-> subject_mapping]
    ELSE With(FrameStudents(subject_mapping, students, Len(students)), LAMBDA f :
             [frame |-> Some(f.records), subject_mapping |-> f.subject_mapping])

(***************************************************************************)
(* pdf_processor.py: floats, line detection, bands and crops               *)
(***************************************************************************)
\* ---------------------------------------------------------------------------
\* Python float: IEEE 754 binary64, round to nearest, ties to even.
\* The y coordinates are Python floats; every sum, difference, quotient and
\* comparison the geometry code makes on them is rounded as the interpreter
\* rounds it.  A mantissa has 53 bits and does not fit a TLC integer, so it is
\* held as a natural number in limbs (least significant first, no leading
\* zero limb; the empty sequence is zero).
\* ---------------------------------------------------------------------------
LimbBase == 2^15

MantissaBits == 53

Max(a, b) == IF a >= b THEN a ELSE b

BigLimb(a, i) == IF i <= Len(a) THEN a[i] ELSE 0

\* a without its leading zero limbs
RECURSIVE BigNorm(_)
BigNorm(a) ==
    IF a = <<>> \/ a[Len(a)] # 0 THEN a ELSE BigNorm(SubSeq(a, 1, Len(a) - 1))

BigOfNat(n) ==
    BigNorm(<<n % LimbBase, (n \div LimbBase) % LimbBase, n \div (LimbBase * LimbBase)>>)

RECURSIVE BigAddFrom(_, _, _, _)
BigAddFrom(a, b, i, carry) ==
    IF i > Max(Len(a), Len(b))
    THEN IF carry = 0 THEN <<>> ELSE <<carry>>
    ELSE <<(BigLimb(a, i) + BigLimb(b, i) + carry) % LimbBase>>
            \o BigAddFrom(a, b, i + 1, (BigLimb(a, i) + BigLimb(b, i) + carry) \div LimbBase)

BigAdd(a, b) == BigAddFrom(a, b, 1, 0)

RECURSIVE BigSubFrom(_, _, _, _)
BigSubFrom(a, b, i, borrow) ==
    IF i > Len(a)
    THEN <<>>
    ELSE <<(a[i] - BigLimb(b, i) - borrow) % LimbBase>>
            \o BigSubFrom(a, b, i + 1, IF a[i] - BigLimb(b, i) - borrow < 0 THEN 1 ELSE 0)

\* a - b for a >= b
BigSub(a, b) == BigNorm(BigSubFrom(a, b, 1, 0))

BigLess(a, b) ==
    IF Len(a) # Len(b)
    THEN Len(a) < Len(b)
    ELSE \E i \in 1..Len(a) : a[i] < b[i] /\ \A j \in (i + 1)..Len(a) : a[j] = b[j]

RECURSIVE BigMulFrom(_, _, _, _)
BigMulFrom(a, k, i, carry) ==
    IF i > Len(a)
    THEN IF carry = 0 THEN <<>> ELSE <<carry>>
    ELSE <<(a[i] * k + carry) % LimbBase>>
            \o BigMulFrom(a, k, i + 1, (a[i] * k + carry) \div LimbBase)

\* a * k for 0 < k <= LimbBase
BigMulSmall(a, k) == BigMulFrom(a, k, 1, 0)

\* the limbs 1..i of (rem * LimbBase^i + a[1..i]) \div k, long division from limb i down
RECURSIVE BigQuotFrom(_, _, _, _)
BigQuotFrom(a, k, i, rem) ==
    IF i = 0
    THEN <<>>
    ELSE BigQuotFrom(a, k, i - 1, (rem * LimbBase + a[i]) % k)
            \o <<(rem * LimbBase + a[i]) \div k>>

\* a % k, by Horner's rule from limb i down
RECURSIVE BigRemFrom(_, _, _, _)
BigRemFrom(a, k, i, rem) ==
    IF i = 0 THEN rem ELSE BigRemFrom(a, k, i - 1, (rem * LimbBase + a[i]) % k)

\* <<a \div k, a % k>> for 0 < k <= LimbBase
BigDivSmall(a, k) ==
    <<BigNorm(BigQuotFrom(a, k, Len(a), 0)), BigRemFrom(a, k, Len(a), 0)>>

BigShiftLeft(a, n) ==
    IF a = <<>>
    THEN <<>>
    ELSE [i \in 1..(n \div 15) |-> 0] \o BigMulSmall(a, 2^(n % 15))

\* <<a \div 2^n, whether a bit was shifted out>>
BigShiftRight(a, n) ==
    IF n \div 15 >= Len(a)
    THEN <<<<>>, a # <<>>>>
    ELSE <<BigNorm(BigQuotFrom(SubSeq(a, n \div 15 + 1, Len(a)), 2^(n % 15), Len(a) - n \div 15, 0)),
           \E i \in 1..(n \div 15 + 1) :
               a[i] % (IF i = n \div 15 + 1 THEN 2^(n % 15) ELSE LimbBase) # 0>>

BitLen(a) ==
    IF a = <<>>
    THEN 0
    ELSE 15 * (Len(a) - 1)
         + (CHOOSE k \in 1..15 : 2^k > a[Len(a)] /\ 2^(k - 1) <= a[Len(a)])

BigOdd(a) == a # <<>> /\ a[1] % 2 = 1

\* A float is <<sign, mantissa, exponent>>, its value sign * mantissa * 2^exponent,
\* the mantissa of exactly MantissaBits bits; zero is DZero.
DZero == <<1, <<>>, 0>>

\* the float nearest to sign * (m + f) * 2^e, where 0 <= f < 1 and sticky says f > 0
\* r has MantissaBits bits, or one more when the rounding carried
DRoundCarried(sign, r, e) ==
    IF BitLen(r) > MantissaBits
    THEN <<sign, BigShiftRight(r, 1)[1], e + 1>>
    ELSE <<sign, r, e>>

\* q is the kept part, guard the first bit dropped, rest whether any later
\* bit is set: up on more than half, and on half to the even side
DRoundNearest(sign, q, guard, rest, e) ==
    DRoundCarried(sign, IF guard /\ (rest \/ BigOdd(q)) THEN BigAdd(q, <<1>>) ELSE q, e)

\* dropped is <<kept part, whether a set bit was dropped>> after the bits
\* below the guard bit went, the guard bit itself still in place
DRoundGuarded(sign, dropped, e, sticky) ==
    DRoundNearest(sign, BigShiftRight(dropped[1], 1)[1], BigOdd(dropped[1]),
                  dropped[2] \/ sticky, e)

\* m has len bits
DRoundSized(sign, m, e, sticky, len) ==
    IF len <= MantissaBits
    THEN <<sign, BigShiftLeft(m, MantissaBits - len), e - (MantissaBits - len)>>
    ELSE DRoundGuarded(sign, BigShiftRight(m, len - MantissaBits - 1),
                       e + len - MantissaBits, sticky)

DRound(sign, m, e, sticky) ==
    IF m = <<>> THEN DZero ELSE DRoundSized(sign, m, e, sticky, BitLen(m))

\* the float of a mantissa of len bits, 0 < len <= MantissaBits: no rounding
DExact(m, len) == <<1, BigShiftLeft(m, MantissaBits - len), len - MantissaBits>>

DOfMantissa(m) == IF m = <<>> THEN DZero ELSE DExact(m, BitLen(m))

\* float(n) for a natural number below 2^31
DOfNat(n) == DOfMantissa(BigOfNat(n))

DNeg(x) == IF x = DZero THEN x ELSE <<0 - x[1], x[2], x[3]>>

DAbs(x) == <<1, x[2], x[3]>>

MagLess(x, y) ==
    IF y = DZero THEN FALSE
    ELSE IF x = DZero THEN TRUE
    ELSE IF x[3] # y[3] THEN x[3] < y[3]
    ELSE BigLess(x[2], y[2])

DLess(x, y) ==
    IF x[1] # y[1] THEN x[1] < y[1]
    ELSE IF x[1] = 1 THEN MagLess(x, y)
    ELSE MagLess(y, x)

DLeq(x, y) == x = y \/ DLess(x, y)

\* x + y, rounded
\* sa * a * 2^e + sb * b * 2^e, rounded; less says b < a.  The signs agree, or
\* the larger magnitude gives the sign.
DAddAligned(sa, sb, a, b, e, less) ==
    DRound(IF sa = sb \/ less THEN sa ELSE sb,
           IF sa = sb THEN BigAdd(a, b)
           ELSE BigSub(IF less THEN a ELSE b, IF less THEN b ELSE a),
           e, FALSE)

\* hi + lo, hi's exponent not below lo's; a is hi's mantissa at lo's exponent
DAddShifted(hi, lo, a) == DAddAligned(hi[1], lo[1], a, lo[2], lo[3], BigLess(lo[2], a))

DAddOrdered(hi, lo) ==
    IF hi[3] - lo[3] > 64
    THEN hi
    ELSE DAddShifted(hi, lo, BigShiftLeft(hi[2], hi[3] - lo[3]))

DAdd(x, y) ==
    IF x = DZero THEN y
    ELSE IF y = DZero THEN x
    ELSE DAddOrdered(IF x[3] >= y[3] THEN x ELSE y, IF x[3] >= y[3] THEN y ELSE x)

DSub(x, y) == DAdd(x, DNeg(y))

\* x / k for an integer 0 < k < LimbBase, rounded
DQuotient(sign, r, e) == DRound(sign, r[1], e, r[2] # 0)

DDivNat(x, k) ==
    IF x = DZero
    THEN DZero
    ELSE DQuotient(x[1], BigDivSmall(BigShiftLeft(x[2], 17), k), x[3] - 17)

\* the float a decimal literal n/d denotes (d a power of ten)
DOfDecimal(n, d) == DDivNat(DOfNat(n), d)

\* the next float above a positive x
NextUp(x) == DRound(1, BigAdd(x[2], <<1>>), x[3], FALSE)

\* ---------------------------------------------------------------------------
\* pdf_processor.py: separator lines, student bands and crops.
\* ---------------------------------------------------------------------------

\* The built-in sum adds floats left to right (CPython up to 3.11) or with
\* Neumaier's compensation (CPython 3.12 and later); the repository pins
\* neither.
PyRuntimes == {"sequential", "compensated"}

RECURSIVE SumSequential(_)
SumSequential(group) ==
    IF group = <<>>
    THEN DZero
    ELSE DAdd(SumSequential(SubSeq(group, 1, Len(group) - 1)), group[Len(group)])

\* the running <<sum, compensation>> after one more term: t is the rounded
\* sum, big and small the old sum and the term by magnitude
CompensatedAdd(big, small, lo, t) == <<t, DAdd(lo, DAdd(DSub(big, t), small))>>

CompensatedStep(total, x) ==
    CompensatedAdd(IF MagLess(total[1], x) THEN x ELSE total[1],
                   IF MagLess(total[1], x) THEN total[1] ELSE x,
                   total[2], DAdd(total[1], x))

RECURSIVE CompensatedTotal(_)
CompensatedTotal(group) ==
    IF group = <<>>
    THEN <<DZero, DZero>>
    ELSE CompensatedStep(CompensatedTotal(SubSeq(group, 1, Len(group) - 1)), group[Len(group)])

CompensatedResult(total) ==
    IF total[2] # DZero THEN DAdd(total[1], total[2]) ELSE total[1]

SumCompensated(group) == CompensatedResult(CompensatedTotal(group))

PySum(py, group) ==
    IF py = "compensated" THEN SumCompensated(group) ELSE SumSequential(group)

\* avg = sum(current_group) / len(current_group)
GroupAverage(py, current_group) == DDivNat(PySum(py, current_group), Len(current_group))

\* deduplicated.append(avg): the open group is closed
GroupClosed(py, scan) ==
    Append(scan.deduplicated, GroupAverage(py, scan.current_group))

\* one iteration of `for i in range(1, len(lines))`, at the 1-based line i
GroupNext(py, lines, threshold, i, before) ==
    IF DLeq(DSub(lines[i], lines[i - 1]), threshold)
    THEN [deduplicated |-> before.deduplicated,
          current_group |-> Append(before.current_group, lines[i])]
    ELSE [deduplicated |-> GroupClosed(py, before), current_group |-> <<lines[i]>>]

\* deduplicated and current_group after the lines 1..i
RECURSIVE GroupScan(_, _, _, _)
GroupScan(py, lines, threshold, i) ==
    IF i = 1
    THEN [deduplicated |-> <<>>, current_group |-> <<lines[1]>>]
    ELSE GroupNext(py, lines, threshold, i, GroupScan(py, lines, threshold, i - 1))

_deduplicate_lines(py, lines, threshold) ==
    IF lines = <<>>
    THEN <<>>
    ELSE GroupClosed(py, GroupScan(py, lines, threshold, Len(lines)))

\* list.sort() on floats: ascending, equal values in their order of arrival
SortFloats(values) ==
    [r \in 1..Len(values) |->
        values[CHOOSE j \in 1..Len(values) :
            r = 1 + Cardinality({k \in 1..Len(values) :
                    DLess(values[k], values[j]) \/ (values[k] = values[j] /\ k < j)})]]

HorizontalTolerance == 3

DedupThreshold == 5

LineMinLength == 100

BoundaryMinLength == 200

\* A drawing item is <<"l", p1, p2>> with points <<x, y>>, <<"re", rect>> with
\* rect <<x0, y0, x1, y1>> and x0 <= x1, y0 <= y1, or another command.
\* <<x, y, x, y>> of the two ends of a stroke: the points p1 and p2 of a line,
\* the corners of a rectangle
ItemEnds(item) ==
    IF item[1] = "l" THEN <<item[2][1], item[2][2], item[3][1], item[3][2]>> ELSE item[2]

\* a test that lets a difference of exactly the tolerance through
LongHorizontalInclusive(ends, min_line_length) ==
    IF /\ DLeq(DAbs(DSub(ends[2], ends[4])), DOfNat(HorizontalTolerance))
       /\ DLeq(DOfNat(min_line_length), DAbs(DSub(ends[3], ends[1])))
    THEN Some(DDivNat(DAdd(ends[2], ends[4]), 2))
    ELSE None

\* A line counts with abs(p1.y - p2.y) < 3 and abs(p2.x - p1.x) >= min_line_length,
\* a rectangle with rect.height < 3 and rect.width >= min_line_length, which
\* for x0 <= x1 and y0 <= y1 are the same differences; the y coordinate is
\* the middle of the two ends.
LongHorizontal(ends, min_line_length) ==
    IF /\ DLess(DAbs(DSub(ends[2], ends[4])), DOfNat(HorizontalTolerance))
       /\ DLeq(DOfNat(min_line_length), DAbs(DSub(ends[3], ends[1])))
    THEN Some(DDivNat(DAdd(ends[2], ends[4]), 2))
    ELSE None

\* the y coordinate an item contributes, if it is a long enough horizontal stroke
ItemLine(item, min_line_length) ==
    IF item[1] \in {"l", "re"} THEN LongHorizontal(ItemEnds(item), min_line_length) ELSE None

\* horizontal_lines before the sort: every path's items in drawing order
HorizontalLines(page, min_line_length) ==
    Flatten([p \in 1..Len(page.paths) |->
        Flatten([k \in 1..Len(page.paths[p]) |-> ItemLine(page.paths[p][k], min_line_length)])])

detect_horizontal_lines(py, page, min_line_length) ==
    IF ~page.readable
    THEN <<>>
    ELSE _deduplicate_lines(py, SortFloats(HorizontalLines(page, min_line_length)),
                            DOfNat(DedupThreshold))

\* A mutation: the second band runs to the last line found, not to the third.
SecondBandToLastLine(lines) ==
    IF Len(lines) >= 3
    THEN <<[y_top |-> lines[1], y_bottom |-> lines[2]],
           [y_top |-> lines[2], y_bottom |-> lines[Len(lines)]]>>
    ELSE IF Len(lines) >= 2
    THEN <<[y_top |-> lines[1], y_bottom |-> lines[2]]>>
    ELSE <<>>

StudentBands(lines) ==
    IF Len(lines) >= 3
    THEN <<[y_top |-> lines[1], y_bottom |-> lines[2]],
           [y_top |-> lines[2], y_bottom |-> lines[3]]>>
    ELSE IF Len(lines) >= 2
    THEN <<[y_top |-> lines[1], y_bottom |-> lines[2]]>>
    ELSE <<>>

\* the result dict built from the detected lines
BoundariesOf(lines) ==
    [num_students |-> IF Len(lines) >= 3 THEN 2 ELSE IF Len(lines) >= 2 THEN 1 ELSE 0,
     students |-> StudentBands(lines),
     detected_lines |-> lines]

detect_student_boundaries(py, page, min_line_length) ==
    BoundariesOf(detect_horizontal_lines(py, page, min_line_length))

\* STUDENT_BLOCK_COORDS['student_heights'], the fixed bands of the legacy crops
STUDENT_BLOCK_COORDS == <<<<91, 294>>, <<294, 497>>>>

SingleStudentBottom == 326

\* list[i] as Python indexes a list: a negative i counts from the end, an i
\* outside the list raises IndexError (None)
PyIndex(list, i) ==
    IF i >= 0 /\ i < Len(list) THEN Some(list[i + 1])
    ELSE IF i < 0 /\ 0 - i <= Len(list) THEN Some(list[Len(list) + i + 1])
    ELSE None

\* What the file system does to a call: the source document cannot be
\* opened, the output cannot be saved, or neither happens.
CropEnvs == {"ok", "open_fails", "save_fails"}

CropFailed == [returned |-> FALSE, crop_rect |-> None, saved |-> <<>>]

\* A mutation: a page without a band for the request is cropped to the fixed
\* coordinates instead.
BandOrFixedCoords(boundaries, student_index) ==
    IF boundaries.num_students # 0 /\ student_index < Len(boundaries.students)
    THEN PyIndex(boundaries.students, student_index)
    ELSE LET fixed == PyIndex(STUDENT_BLOCK_COORDS, student_index)
         IN IF fixed = None
            THEN None
            ELSE Some([y_top |-> DOfNat(fixed[1][1]), y_bottom |-> DOfNat(fixed[1][2])])

\* the band crop_single_student crops to, None where it returns False or
\* the indexing raises
RequestedBand(boundaries, student_index) ==
    IF boundaries.num_students = 0 THEN None
    ELSE IF student_index >= Len(boundaries.students) THEN None
    ELSE PyIndex(boundaries.students, student_index)

\* A mutation: the crop keeps a margin above and below the band.
PaddedRect(page, band) ==
    <<DZero, DSub(band.y_top, DOfNat(2)), page.width, DAdd(band.y_bottom, DOfNat(2))>>

\* fitz.Rect(x_left, y_top, x_right, y_bottom) of crop_single_student
BandRect(page, band) == <<DZero, band.y_top, page.width, band.y_bottom>>

\* the document saved under output_path: the page with its crop box
SaveCrop(output_path, crop_rect, env) ==
    IF env = "save_fails"
    THEN [returned |-> FALSE, crop_rect |-> Some(crop_rect), saved |-> <<>>]
    ELSE [returned |-> TRUE, crop_rect |-> Some(crop_rect),
          saved |-> <<[output_path |-> output_path, crop_rect |-> crop_rect]>>]

\* the crop to the band found for the request, if one was found
CropToBand(page, band, output_path, env) ==
    IF band = None
    THEN CropFailed
    ELSE SaveCrop(output_path, BandRect(page, band[1]), env)

crop_single_student(py, doc, page_num, student_index, output_path, env) ==
    IF env = "open_fails" THEN CropFailed
    ELSE IF page_num >= Len(doc) THEN CropFailed
    ELSE CropToBand(doc[page_num + 1],
                    RequestedBand(detect_student_boundaries(py, doc[page_num + 1],
                                                            BoundaryMinLength),
                                  student_index),
                    output_path, env)

\* the crop to the fixed band heights; a page's only student ends at y_bottom = 326
CropToFixed(page, heights, single, output_path, env) ==
    IF heights = None
    THEN CropFailed
    ELSE SaveCrop(output_path,
                  <<DZero, DOfNat(heights[1][1]), page.width,
                    DOfNat(IF single THEN SingleStudentBottom ELSE heights[1][2])>>, env)

crop_single_student_fixed(doc, page_num, student_index, output_path, total_students_on_page, env) ==
    IF student_index >= Len(STUDENT_BLOCK_COORDS) THEN CropFailed
    ELSE IF env = "open_fails" THEN CropFailed
    ELSE IF page_num >= Len(doc) THEN CropFailed
    ELSE CropToFixed(doc[page_num + 1], PyIndex(STUDENT_BLOCK_COORDS, student_index),
                     total_students_on_page = 1 /\ student_index = 0, output_path, env)

\* the loop of crop_multiple_students and of crop_multiple_students_fixed:
\* each request is cropped on its own, the paths of the successful ones kept
\* results[i] is what the crop of page_crops[i] returned and saved
CropKept(before, crop_info, r) ==
    [successful_crops |-> IF r.returned
                          THEN Append(before.successful_crops, crop_info.output_path)
                          ELSE before.successful_crops,
     saved |-> before.saved \o r.saved]

RECURSIVE CropEach(_, _, _)
CropEach(page_crops, results, n) ==
    IF n = 0
    THEN [successful_crops |-> <<>>, saved |-> <<>>]
    ELSE CropKept(CropEach(page_crops, results, n - 1), page_crops[n], results[n])

crop_multiple_students(py, doc, page_crops, env) ==
    CropEach(page_crops,
             [i \in 1..Len(page_crops) |->
                 crop_single_student(py, doc, page_crops[i].page, page_crops[i].student_index,
                                     page_crops[i].output_path, env)],
             Len(page_crops))

crop_multiple_students_fixed(doc, page_crops, env) ==
    CropEach(page_crops,
             [i \in 1..Len(page_crops) |->
                 crop_single_student_fixed(doc, page_crops[i].page, page_crops[i].student_index,
                                           page_crops[i].output_path,
                                           page_crops[i].total_students_on_page, env)],
             Len(page_crops))

\* the attributes of the class PdfProcessor              pdf_processor.py:68-666
PdfProcessorAttributes ==
    {"__init__", "crop_pdf", "detect_horizontal_lines", "_deduplicate_lines",
     "detect_student_boundaries", "crop_single_student", "crop_single_student_fixed",
     "crop_multiple_students_fixed", "crop_multiple_students",
     "crop_all_students_on_page", "get_student_coordinates"}

\* os.path.join(output_dir, f"{base_filename}_student_{student_idx}.pdf")
StudentCropPath(output_dir, base_filename, student_idx) ==
    output_dir \o "/" \o base_filename \o "_student_" \o StrOfNat(student_idx) \o ".pdf"

\* the request the loop of crop_all_students_on_page makes for a student
PageCropRequest(page_num, output_dir, base_filename, student_idx) ==
    [page |-> page_num, student_index |-> student_idx,
     output_path |-> StudentCropPath(output_dir, base_filename, student_idx)]

\* A mutation: the loop calls the method of the class that crops one student.
CropAllBySingle(py, doc, page_num, num_students, output_dir, base_filename, env) ==
    crop_multiple_students(py, doc,
        [i \in 1..num_students |->
            PageCropRequest(page_num, output_dir, base_filename, i - 1)], env)

\* `for student_idx in range(num_students)`: the loop looks the method
\* crop_single_student_dynamic up on the class in its first pass; a class
\* without that attribute raises AttributeError, and the handler of line 626
\* returns the empty list
CropAllLoop(py, doc, page_num, num_students, output_dir, base_filename, env) ==
    IF "crop_single_student_dynamic" \notin PdfProcessorAttributes
    THEN [successful_crops |-> <<>>, saved |-> <<>>]
    ELSE \* a method of that name would be called as crop_single_student is
         crop_multiple_students(py, doc,
             [i \in 1..num_students |->
                 PageCropRequest(page_num, output_dir, base_filename, i - 1)], env)

crop_all_students_on_page(py, doc, page_num, output_dir, base_filename, env) ==
    IF env = "open_fails" THEN [successful_crops |-> <<>>, saved |-> <<>>]
    ELSE IF page_num >= Len(doc) THEN [successful_crops |-> <<>>, saved |-> <<>>]
    ELSE With(detect_student_boundaries(py, doc[page_num + 1], BoundaryMinLength).num_students,
              LAMBDA num_students :
        IF num_students = 0
        THEN [successful_crops |-> <<>>, saved |-> <<>>]
        ELSE CropAllLoop(py, doc, page_num, num_students, output_dir, base_filename, env))

(***************************************************************************)
(* batch_processor.py: BatchGradeProcessor.process_single_pdf              *)
(***************************************************************************)
\* ''.join(c for c in s if c.isalnum() or c in extra)
RECURSIVE KeepAlnum(_, _)
KeepAlnum(s, extra) ==
    IF s = "" THEN ""
    ELSE (IF CharAt(s, 1) \in Digit \cup UpperCase \cup LowerCase \cup extra
          THEN CharAt(s, 1) ELSE "")
         \o KeepAlnum(SubSeq(s, 2, Len(s)), extra)

\* s.replace(old, new) for a non-empty old
RECURSIVE Replace(_, _, _)
Replace(s, old, new) ==
    IF s = "" THEN ""
    ELSE IF StartsWith(s, old)
    THEN new \o Replace(SubSeq(s, Len(old) + 1, Len(s)), old, new)
    ELSE CharAt(s, 1) \o Replace(SubSeq(s, 2, Len(s)), old, new)

\* the file name without its counter and extension
FilenameStem(student, semester) ==
    Replace(student.ern[1], "MU", "MU") \o "_" \o KeepAlnum(student.seat_no[1], {})
    \o "_" \o KeepAlnum(semester, {"-"}) \o "_" \o KeepAlnum(student.status[1], {})
    \o "_" \o Replace(student.college_code[1], "MU-", "MU")

\* the first counter from `counter` on whose file name is free
RECURSIVE FreeCounter(_, _, _)
FreeCounter(stem, existing_files, counter) ==
    IF (stem \o "_" \o StrOfNat(counter) \o ".pdf") \in existing_files
    THEN FreeCounter(stem, existing_files, counter + 1)
    ELSE counter

\* a variant that gives every repeated name the counter 2
generate_student_filename_second(student, semester, existing_files) ==
    IF student.ern = None \/ student.seat_no = None \/ student.status = None
       \/ student.college_code = None
    THEN None
    ELSE With(FilenameStem(student, semester), LAMBDA stem :
        IF (stem \o ".pdf") \in existing_files
        THEN Some(stem \o "_2.pdf")
        ELSE Some(stem \o ".pdf"))

\* the file name, None where a field that is None raises (None has no
\* replace and cannot be iterated)
generate_student_filename(student, semester, existing_files) ==
    IF student.ern = None \/ student.seat_no = None \/ student.status = None
       \/ student.college_code = None
    THEN None
    ELSE With(FilenameStem(student, semester), LAMBDA stem :
        IF (stem \o ".pdf") \in existing_files
        THEN Some(stem \o "_" \o StrOfNat(FreeCounter(stem, existing_files, 2)) \o ".pdf")
        ELSE Some(stem \o ".pdf"))

\* `existing_files.add(base_filename)`: the name returned is kept; a call
\* that raises keeps nothing                              batch_processor.py:230
FilesAfter(existing_files, filename) ==
    IF filename = None THEN existing_files ELSE existing_files \cup {filename[1]}

BatchStats ==
    [pdfs_processed |-> 0, pdfs_failed |-> 0, students_extracted |-> 0,
     students_cropped |-> 0, db_records_created |-> 0, students_failed |-> 0]

\* process_single_pdf up to the extraction: without metadata it returns False
BatchStarted(metadata, db) ==
    [op |-> "process_single_pdf",
     phase |-> IF metadata = None THEN "returned" ELSE "extracting",
     returned |-> IF metadata = None THEN Some(FALSE) ELSE None,
     metadata |-> metadata, idx |-> 0, existing_files |-> {}, outcomes |-> <<>>,
     crop_calls |-> <<>>, saved |-> <<>>, stats |-> BatchStats,
     db_students |-> db.students, db_records |-> db.records]

\* `if not extracted_data['students']: return False`
BatchExtracted(b, students) ==
    IF students = <<>>
    THEN [b EXCEPT !.phase = "returned", !.returned = Some(FALSE)]
    ELSE [b EXCEPT !.phase = "students"]

\* a student the loop gives up: logged, counted in students_failed
BatchGivenUp(b, student_data, outcome) ==
    [b EXCEPT !.idx = @ + 1,
              !.outcomes = Append(@, [page_number |-> student_data.page_number,
                                      outcome |-> outcome]),
              !.stats.students_failed = @ + 1]

\* sum(1 for s in students_in_pdf[:idx-1] if s['page_number'] == page_num),
\* b.idx students having been through the loop
StudentIndexOnPage(students, b, page_num) ==
    Cardinality({k \in 1..b.idx : students[k].page_number = page_num})

\* the rows the loop writes for a student whose crop is saved.  Student has no
\* column full_name, so the constructor call for an enrollment number the
\* table does not hold raises; a second record of a student for the
\* examination violates unique_student_exam; a record that is committed is
\* followed by a log line that reads student_data['full_name'], a key the
\* student dict does not have.  Each of the three ends in an except clause.
BatchRecorded(b, student_data) ==
    IF student_data.ern[1] \notin b.db_students
    THEN BatchGivenUp(b, student_data, "cropped, no student row")
    ELSE IF student_data.ern[1] \in b.db_records
    THEN BatchGivenUp(b, student_data, "cropped, duplicate record")
    ELSE [BatchGivenUp(b, student_data, "cropped, recorded") EXCEPT
             !.db_records = @ \cup {student_data.ern[1]},
             !.stats.db_records_created = @ + 1]

\* the crop of the student and what follows it
BatchCropped(b, student_data, crop_result) ==
    IF crop_result.returned
    THEN BatchRecorded([b EXCEPT !.saved = @ \o crop_result.saved,
                                 !.stats.students_cropped = @ + 1], student_data)
    ELSE BatchGivenUp(b, student_data, "crop failed")

\* the arguments of the call of crop_single_student for the student at idx
\*                                                   batch_processor.py:299-310
CropCall(students, b, page_num) ==
    [idx |-> b.idx + 1, page_num |-> page_num,
     student_index |-> StudentIndexOnPage(students, b, page_num)]

\* one iteration of `for idx, student_data in enumerate(students_in_pdf, 1)`
BatchStudentDone(b, students, py, doc, env) ==
    With(students[b.idx + 1], LAMBDA student_data :
        IF Falsy(student_data.ern) \/ Falsy(student_data.seat_no)
        THEN BatchGivenUp(b, student_data, "missing ern or seat number")
        ELSE IF Falsy(student_data.college_code) \/ Falsy(student_data.college_name)
        THEN BatchGivenUp(b, student_data, "missing college")
        ELSE With(generate_student_filename(student_data,
                      IF b.metadata[1].semester = None THEN "Unknown"
                      ELSE b.metadata[1].semester[1], b.existing_files),
                  LAMBDA student_filename :
            IF student_filename = None
            THEN BatchGivenUp(b, student_data, "error")
            ELSE BatchCropped([b EXCEPT !.existing_files = FilesAfter(@, student_filename),
                                        !.crop_calls = Append(@,
                                            CropCall(students, b, student_data.page_number))],
                              student_data,
                              crop_single_student(py, doc, student_data.page_number,
                                  StudentIndexOnPage(students, b, student_data.page_number),
                                  "out/" \o student_filename[1], env))))

\* the end of the loop
BatchFinished(b, students) ==
    [b EXCEPT !.phase = "returned", !.returned = Some(TRUE),
              !.stats.students_extracted = @ + Len(students),
              !.stats.pdfs_processed = @ + 1]

\* the students SimpleStudentExtractor.process_pdf returns for the pages
\*                                                     extract_simple.py:220-242
SimpleStudentsOf(pages) ==
    Flatten([k \in 1..Len(pages) |-> PageStudents("simple", k - 1, pages[k].text)])

\* `for idx, student_data in enumerate(students_in_pdf, 1)` run to its end
RECURSIVE BatchStudentsDone(_, _, _, _)
BatchStudentsDone(b, students, py, doc) ==
    IF b.idx = Len(students) THEN b
    ELSE BatchStudentsDone(BatchStudentDone(b, students, py, doc, "ok"), students, py, doc)

\* `except Exception` of process_single_pdf: counted in pdfs_failed
\*                                                   batch_processor.py:375-380
BatchRaised(b) ==
    [b EXCEPT !.phase = "returned", !.returned = Some(FALSE), !.stats.pdfs_failed = @ + 1]

\* the extraction and what follows it: a file pdfplumber cannot open raises
BatchAfterMetadata(b, pdf, py) ==
    IF ~pdf.opens THEN BatchRaised(b)
    ELSE With(BatchExtracted(b, SimpleStudentsOf(pdf.text)), LAMBDA extracted :
             IF extracted.phase = "returned" THEN extracted
             ELSE BatchFinished(BatchStudentsDone(extracted, SimpleStudentsOf(pdf.text),
                                                  py, pdf.drawn),
                                SimpleStudentsOf(pdf.text)))

\* process_single_pdf as one call, on the stats and the tables it finds
process_single_pdf(stats, db, pdf, py) ==
    With([BatchStarted(pdf.metadata, db) EXCEPT !.stats = stats], LAMBDA started :
        IF started.phase = "returned" THEN started
        ELSE BatchAfterMetadata(started, pdf, py))


(***************************************************************************)
(* State                                                                   *)
(***************************************************************************)
VARIABLES
    rec_input,    \* the student block handed to parse_student_record, by its parts
    ps,           \* parse_student_record's position and its student dict
    accepted,     \* validate_student_record's answer: None before the call
    seg_input,    \* the page handed to find_student_blocks, and by which extractor
    seg,          \* find_student_blocks' position and its locals
    doc_input,    \* the document handed to process_pdf, and by which extractor
    doc,          \* process_pdf's position, all_students and the extractor's fields
    ded_input,    \* the sorted y coordinates handed to _deduplicate_lines, and the threshold
    ded,          \* the list after each pass of _deduplicate_lines
    crop_input,   \* the document handed to the crop functions, and the interpreter
    crop          \* the call made on it: its arguments, what it returned and saved

recVars == <<rec_input, ps, accepted>>
segVars == <<seg_input, seg>>
docVars == <<doc_input, doc>>
dedVars == <<ded_input, ded>>
cropVars == <<crop_input, crop>>
geoVars == <<ded_input, ded, crop_input, crop>>
textVars == <<rec_input, ps, accepted, seg_input, seg, doc_input, doc>>
vars == <<rec_input, ps, accepted, seg_input, seg, doc_input, doc,
          ded_input, ded, crop_input, crop>>

Idle == [phase |-> "idle"]
RecIdle == rec_input = Idle /\ ps = Idle /\ accepted = <<>>
SegIdle == seg_input = Idle /\ seg = Idle
DocIdle == doc_input = Idle /\ doc = Idle
DedIdle == ded_input = Idle /\ ded = Idle
CropIdle == crop_input = Idle /\ crop = Idle
GeoIdle == DedIdle /\ CropIdle
TextIdle == RecIdle /\ SegIdle /\ DocIdle

(***************************************************************************)
(* The student blocks the record decoder is run on.  A block is given by   *)
(* its parts so that a claim can compare what was decoded with what was    *)
(* printed; BlockText builds the text the code sees.                       *)
(***************************************************************************)
MaxNameTokens == 2
MaxSubjects == 3

SeqsUpTo(S, n) == UNION {[1..k -> S] : k \in 0..n}

SeatNo == "123456789"
Enrollment == "MU0098765"
CollegeLine == "MU-101: ABC COLLEGE"

\* name tokens; ATKT is also a status keyword
NameTokens == {"RAHUL", "ATKT"}
\* the status keywords of the data model, and "" for a line without one
StatusKeywords == {"Regular", "ATKT", "Ex-Student", "Repeater"}
StatusChoices == StatusKeywords \cup {""}
\* what may follow the status keyword
AfterStatusChoices == {"", "MALE", "OTHER", "Male"}
\* where the enrollment reference is printed
ErnPlaces == {"none", "before", "inline", "after"}

\* one subject of an E1 row, with the mark it prints first
ExtEntries == {[text |-> "45 P", mark |-> 45], [text |-> "0 0 F 5.5", mark |-> 0],
               [text |-> "10 0 F 0.0", mark |-> 10]}
ExtSuffixes == {"", " MARKS"}

\* one subject of an I1 row
IntEntries == {[text |-> "18 P", mark |-> 18]}
IntClauses == {"", " (113) PASS", " (40) FAIL"}

\* one subject of a TOT row: total, grade point, grade, credit, credit product
Quintuples ==
    {[text |-> "45 8 B 2.00 16.00", total |-> 45, gp |-> 8, grade |-> "B",
      credit |-> <<2, 1>>, gc |-> <<16, 1>>],
     [text |-> "50 9 A+ 2.00 18.00", total |-> 50, gp |-> 9, grade |-> "A+",
      credit |-> <<2, 1>>, gc |-> <<18, 1>>],
     [text |-> "0 0 F 4 0.5", total |-> 0, gp |-> 0, grade |-> "F",
      credit |-> <<4, 1>>, gc |-> <<1, 2>>]}
\* the end of a TOT row: total credits, sum of G*C, SGPA
TotTails ==
    {[text |-> " 4 34.00 8.50", total_credits |-> 4, sgpa |-> <<17, 2>>],
     [text |-> " 20 170.0 8.5", total_credits |-> 20, sgpa |-> <<17, 2>>],
     [text |-> " 0 0.00 0.00", total_credits |-> 0, sgpa |-> <<0, 1>>]}

CodeDigits == <<"1", "2", "3", "4", "5", "6", "7", "8", "9">>
CodeOf(k) == LET d == CodeDigits[k] IN d \o d \o d \o d \o d \o d \o d
CodeList(n) == [k \in 1..n |-> CodeOf(k)]
CodesLine(n) == Join([k \in 1..n |-> CodeOf(k) \o ":"], " ")

\* the subject codes printed in the block (n) and on its page (p): the page
\* holds the block, so p differs from n only for a block that prints none
SameCodes(n) == [n |-> n, p |-> n]
CodeConfigs == {SameCodes(n) : n \in 0..MaxSubjects} \cup {[n |-> 0, p |-> MaxSubjects]}

DefaultInput ==
    [names |-> <<"RAHUL">>, status |-> "Regular", after |-> "MALE", ern |-> "before",
     codes |-> [n |-> 2, p |-> 2],
     ext |-> <<[text |-> "45 P", mark |-> 45], [text |-> "0 0 F 5.5", mark |-> 0]>>,
     ext_suffix |-> " MARKS",
     int |-> <<[text |-> "18 P", mark |-> 18], [text |-> "18 P", mark |-> 18]>>,
     int_clause |-> " (113) PASS",
     quints |-> <<[text |-> "45 8 B 2.00 16.00", total |-> 45, gp |-> 8, grade |-> "B",
                   credit |-> <<2, 1>>, gc |-> <<16, 1>>],
                  [text |-> "50 9 A+ 2.00 18.00", total |-> 50, gp |-> 9, grade |-> "A+",
                   credit |-> <<2, 1>>, gc |-> <<18, 1>>]>>,
     tot_tail |-> [text |-> " 4 34.00 8.50", total_credits |-> 4, sgpa |-> <<17, 2>>],
     family |-> "default"]

\* blocks that differ in the seat-number line
HeaderFamily ==
    {[DefaultInput EXCEPT !.names = nm, !.status = st, !.after = af,
                          !.family = "header"] :
        nm \in SeqsUpTo(NameTokens, MaxNameTokens), st \in StatusChoices,
        af \in AfterStatusChoices}

\* blocks that differ in where the enrollment reference is, and in the I1 clause
ErnFamily ==
    {[DefaultInput EXCEPT !.ern = er, !.int_clause = cl, !.family = "ern"] :
        er \in ErnPlaces, cl \in IntClauses}

\* blocks that differ in the E1 row, with one subject code per entry
ExternalFamily ==
    {[DefaultInput EXCEPT !.ext = e, !.ext_suffix = sf, !.codes = SameCodes(Len(e)),
                          !.family = "external"] :
        e \in SeqsUpTo(ExtEntries, MaxSubjects), sf \in ExtSuffixes}

\* blocks that differ in the TOT row, with one subject code per quintuple
AggregateFamily ==
    {[DefaultInput EXCEPT !.quints = q, !.tot_tail = t, !.codes = SameCodes(Len(q)),
                          !.family = "aggregate"] :
        q \in SeqsUpTo(Quintuples, MaxSubjects), t \in TotTails}

\* blocks whose rows and subject codes disagree in length
MixedFamily ==
    {[DefaultInput EXCEPT !.ext = [k \in 1..a |-> [text |-> "45 P", mark |-> 45]],
                          !.int = [k \in 1..b |-> [text |-> "18 P", mark |-> 18]],
                          !.quints = [k \in 1..t |-> DefaultInput.quints[1]],
                          !.codes = c, !.family = "mixed"] :
        a \in 0..MaxSubjects, b \in 0..MaxSubjects, t \in 0..MaxSubjects,
        c \in CodeConfigs}

RecInputs == HeaderFamily \cup ErnFamily \cup ExternalFamily \cup AggregateFamily \cup MixedFamily

TextsOf(entries) == [k \in 1..Len(entries) |-> entries[k].text]

SeatLineOf(in) ==
    Join(SelectSeq(<<SeatNo>> \o in.names
                   \o <<in.status, in.after,
                        IF in.ern = "inline" THEN "(" \o Enrollment \o ")" ELSE "">>,
                   LAMBDA t : t # ""), " ")

ExternalRowOf(in) == Join(<<"E1">> \o TextsOf(in.ext), " ") \o in.ext_suffix
InternalRowOf(in) == Join(<<"I1">> \o TextsOf(in.int), " ") \o in.int_clause
AggregateRowOf(in) == Join(<<"TOT">> \o TextsOf(in.quints), " ") \o in.tot_tail.text

\* the block as find_student_blocks cuts it out of the page
BlockText(in) ==
    Join(SelectSeq(<<IF in.ern = "before" THEN "(" \o Enrollment \o ")" ELSE "",
                     SeatLineOf(in),
                     IF in.ern = "after"
                     THEN "(" \o Enrollment \o ") " \o CollegeLine
                     ELSE CollegeLine,
                     CodesLine(in.codes.n),
                     ExternalRowOf(in), InternalRowOf(in), AggregateRowOf(in)>>,
                   LAMBDA t : t # ""), "\n")

(***************************************************************************)
(* SpecRec: parse_student_record and validate_student_record on one block  *)
(***************************************************************************)
InitRec ==
    /\ rec_input \in RecInputs
    /\ ps = Idle
    /\ accepted = None
    /\ SegIdle
    /\ DocIdle
    /\ GeoIdle

\* the call, up to the end of the header section       extract_grades.py:259-364
RecParseHeader ==
    /\ ps.phase = "idle"
    /\ ps' = ParseInit(BlockText(rec_input), 2, CodeList(rec_input.codes.p))
    /\ UNCHANGED <<rec_input, accepted, segVars, docVars, geoVars>>

\* one line of `for line in lines` that is not inside the TOT scan
RecParseRow ==
    /\ ps.phase = "rows"
    /\ ps' = ParseStep(ps)
    /\ UNCHANGED <<rec_input, accepted, segVars, docVars, geoVars>>

\* one iteration (or the exit) of the TOT row's while loop
RecScanStep ==
    /\ ps.phase = "tot"
    /\ ps' = ParseStep(ps)
    /\ UNCHANGED <<rec_input, accepted, segVars, docVars, geoVars>>

\* validate_student_record on the returned dict
RecValidate ==
    /\ ps.phase = "done"
    /\ accepted = None
    /\ accepted' = Some(validate_student_record(ps.student))
    /\ UNCHANGED <<rec_input, ps, segVars, docVars, geoVars>>

NextRec == RecParseHeader \/ RecParseRow \/ RecScanStep \/ RecValidate

SpecRec == InitRec /\ [][NextRec]_vars

(***************************************************************************)
(* SpecScan: parse_student_record on blocks whose TOT row is a free run of *)
(* tokens: well-formed quintuples, quintuples with one field off, and      *)
(* stray tokens, with and without the row's three closing numbers.         *)
(***************************************************************************)
MaxScanItems == 2

\* the runs of tokens a TOT row is put together from
ScanItems ==
    {[text |-> "45 8 B 2.00 16.00"],     \* well formed
     [text |-> "75 8 B 2.00 16.00"],     \* total above 50
     [text |-> "45 8 7 2.00 16.00"],     \* an integer where the grade is
     [text |-> "45 8 7.5 2.00 16.00"],   \* a decimal where the grade is
     [text |-> "45 8 B -- 16.00"],       \* a credit that is no number
     [text |-> "50 9 A+ 2.00 --"],       \* a credit product that is no number
     [text |-> "AB"]}                    \* a stray word

\* the closing numbers of the row, or none
ScanTails == {[text |-> " 4 34.00 8.50", total_credits |-> 4, sgpa |-> <<17, 2>>],
              [text |-> "", total_credits |-> 0, sgpa |-> <<0, 1>>]}

ScanCodeCounts == 0..(MaxScanItems + 1)

ScanFamily ==
    {[DefaultInput EXCEPT !.quints = q, !.tot_tail = t, !.codes = SameCodes(n),
                          !.family = "scan"] :
        q \in SeqsUpTo(ScanItems, MaxScanItems), t \in ScanTails, n \in ScanCodeCounts}

InitScan ==
    /\ rec_input \in ScanFamily
    /\ ps = Idle
    /\ accepted = None
    /\ SegIdle
    /\ DocIdle
    /\ GeoIdle

SpecScan == InitScan /\ [][NextRec]_vars

(***************************************************************************)
(* SpecOutcome: each extractor decodes two blocks that print the same I1   *)
(* row and differ in their other lines                                     *)
(***************************************************************************)
\* names that hold no part of an outcome word, the first letters of PASS, and
\* the first letters of FAIL
OutcomeNames == {<<"RAHUL">>, <<"PASCAL">>, <<"FAIZ", "KHAN">>}
OutcomeClauses == IntClauses \cup {" (40) FAILED"}
OutcomeErnPlaces == {"before", "after"}

\* the blocks that print one I1 row
OutcomeBlocks(int_clause) ==
    {[DefaultInput EXCEPT !.names = nm, !.ern = er, !.int_clause = int_clause,
                          !.family = "outcome"] :
        nm \in OutcomeNames, er \in OutcomeErnPlaces}

OutcomePairs ==
    UNION {[blocks : [1..2 -> OutcomeBlocks(cl)], kind : ExtractorKinds,
            family : {"outcome"}] : cl \in OutcomeClauses}

\* the result field of the record the extractor of this kind decodes from the
\* block, None for a block it drops
\*     extract_grades.py:403-407, extract_grades_simple.py:286-295,
\*     extract_simple.py:183-197
DecodedResult(kind, in) ==
    IF kind = "grades"
    THEN parse_student_record(BlockText(in), 2, CodeList(in.codes.p)).result
    ELSE IF kind = "grades_simple"
    THEN parse_student_basic_info(BlockText(in), 2).result
    ELSE With(extract_student_basic_info(BlockText(in), 2, 0), LAMBDA student :
             IF student = None THEN None ELSE student[1].result)

InitOutcome ==
    /\ rec_input \in OutcomePairs
    /\ ps = [phase |-> "outcomes", results |-> <<>>]
    /\ accepted = None
    /\ SegIdle
    /\ DocIdle
    /\ GeoIdle

\* the extractor decodes the next block of the pair
OutcomeDecode ==
    /\ ps.phase = "outcomes"
    /\ Len(ps.results) < 2
    /\ ps' = [ps EXCEPT !.results =
                 Append(@, DecodedResult(rec_input.kind,
                                         rec_input.blocks[Len(ps.results) + 1]))]
    /\ UNCHANGED <<rec_input, accepted, segVars, docVars, geoVars>>

NextOutcome == OutcomeDecode

SpecOutcome == InitOutcome /\ [][NextOutcome]_vars

(***************************************************************************)
(* SpecSeg: find_student_blocks of each extractor on one page              *)
(***************************************************************************)
MaxParagraphs == 3

SeatLine == "123456789 RAHUL Regular MALE"
IndentedSeatLine == "  987654321 PRIYA ATKT FEMALE"
ErnLine == "(" \o Enrollment \o ")"
ExternalLine == "E1 45 P MARKS"
InternalLine == "I1 18 P (45) PASS"
AggregateLine == "TOT 45 8 B 2.00 16.00 2 16.00 8.00"

\* a college line that holds the letters TOT
TotalCollegeLine == "MU-101: TOTAL COLLEGE"

\* the runs of lines a page is made of
Paragraphs ==
    {<<SeatLine, ExternalLine, InternalLine, AggregateLine>>,
     <<ErnLine, IndentedSeatLine, ExternalLine, InternalLine, AggregateLine>>,
     <<SeatLine, InternalLine, AggregateLine>>,
     <<ErnLine, SeatLine>>,
     <<ErnLine>>,
     <<"555555555 rahul", ExternalLine, InternalLine, AggregateLine>>,
     <<SeatLine, TotalCollegeLine, ExternalLine, InternalLine>>}

PageLines == {Flatten(paras) : paras \in SeqsUpTo(Paragraphs, MaxParagraphs)}

InitSeg ==
    /\ seg_input \in [lines : PageLines, kind : ExtractorKinds]
    /\ seg = Idle
    /\ RecIdle
    /\ DocIdle
    /\ GeoIdle

\* lines = page_text.split('\n')
SegSplit ==
    /\ seg.phase = "idle"
    /\ seg' = SegInit(Join(seg_input.lines, "\n"))
    /\ UNCHANGED <<seg_input, recVars, docVars, geoVars>>

\* one iteration of `for i, line in enumerate(lines)`
SegScanLine ==
    /\ seg.phase = "scan"
    /\ seg' = SegScan(seg_input.kind, seg)
    /\ UNCHANGED <<seg_input, recVars, docVars, geoVars>>

\* one iteration of `for i in range(len(student_start_indices))`
SegCutBlock ==
    /\ seg.phase = "cut"
    /\ ~SegReturned(seg)
    /\ seg' = SegCut(seg_input.kind, seg)
    /\ UNCHANGED <<seg_input, recVars, docVars, geoVars>>

NextSeg == SegSplit \/ SegScanLine \/ SegCutBlock

SpecSeg == InitSeg /\ [][NextSeg]_vars

(***************************************************************************)
(* SpecDoc: process_pdf of each extractor on one document                  *)
(***************************************************************************)
MaxPages == 2

TitleLine ==
    "OFFICE REGISTER FOR THE Bachelor of Science (Semester - III) (NEP 2020) REGULAR EXAMINATION HELD IN DECEMBER 2025"
ColumnHeader == "SEAT NO NAME STATUS GENDER ERN"

OtherInput ==
    [DefaultInput EXCEPT !.names = <<"PRIYA", "NAIR">>, !.status = "ATKT",
                         !.after = "FEMALE", !.ern = "after",
                         !.int_clause = " (40) FAIL"]

\* the title page with two catalog lines
TitlePage ==
    [text |-> Join(<<"UNIVERSITY OF MUMBAI", TitleLine,
                     "1111111 Algebra I 2.00 8.00 20.00",
                     "2222222 Physics Lab 2.00 8.00 20.00", "#: O.229">>, "\n"),
     tables |-> <<>>]
\* a catalog page with a table
CatalogPage ==
    [text |-> "Course Code Course Name\n3333333 Chemistry 2.00 8.00",
     tables |-> << << <<Some("Course Code"), Some("Course Name")>>,
                      <<Some("2222222"), Some("Optics")>>,
                      <<Some("4444444"), Some("Botany")>> >> >>]
\* a result page with two blocks
ResultPage ==
    [text |-> Join(<<ColumnHeader, BlockText(DefaultInput), BlockText(OtherInput)>>, "\n"),
     tables |-> <<>>]
\* a result page with one block, of a student with a nameless seat line
NamelessPage ==
    [text |-> Join(<<ColumnHeader, BlockText([DefaultInput EXCEPT !.names = <<>>])>>, "\n"),
     tables |-> <<>>]
\* a result page whose first block has no name, whose second has one internal
\* mark for two external marks, and whose third is complete
RaggedPage ==
    [text |-> Join(<<ColumnHeader, BlockText([DefaultInput EXCEPT !.names = <<>>]),
                     BlockText([DefaultInput EXCEPT
                                  !.int = <<[text |-> "18 P", mark |-> 18]>>]),
                     BlockText(OtherInput)>>, "\n"),
     tables |-> <<>>]
\* a page without the column header that holds a complete block
HeaderlessPage == [text |-> BlockText(OtherInput), tables |-> <<>>]
\* a page without text
BlankPage == [text |-> "", tables |-> <<>>]

DocPages == {TitlePage, CatalogPage, ResultPage, NamelessPage, RaggedPage,
             HeaderlessPage, BlankPage}

\* documents of three pages: result pages after a page of rejected blocks
LongDocuments ==
    {<<TitlePage, NamelessPage, ResultPage>>, <<TitlePage, RaggedPage, ResultPage>>,
     <<TitlePage, CatalogPage, RaggedPage>>}

\* title lines of a supplementary examination, of one that names no kind, and
\* of one that names both
SupplementaryTitleLine ==
    "OFFICE REGISTER FOR THE Bachelor of Science (Semester - III) (NEP 2020) SUPPLEMENTARY EXAMINATION HELD IN MAY 2025"
KindlessTitleLine ==
    "OFFICE REGISTER FOR THE Bachelor of Science (Semester - III) (NEP 2020) EXAMINATION HELD IN DECEMBER 2025"
BothKindsTitleLine ==
    "Bachelor of Science REGULAR AND SUPPLEMENTARY EXAMINATION"
TitleOnlyPage(title_line) ==
    [text |-> Join(<<"UNIVERSITY OF MUMBAI", title_line>>, "\n"), tables |-> <<>>]

\* documents that differ in the title line of page 1
TitledDocuments ==
    {<<TitleOnlyPage(SupplementaryTitleLine)>>, <<TitleOnlyPage(KindlessTitleLine)>>,
     <<TitleOnlyPage(BothKindsTitleLine)>>,
     <<TitleOnlyPage(KindlessTitleLine), ResultPage>>,
     <<ResultPage, TitleOnlyPage(SupplementaryTitleLine)>>}

Documents == SeqsUpTo(DocPages, MaxPages) \cup LongDocuments \cup TitledDocuments

InitDoc ==
    /\ doc_input \in [pages : Documents, kind : ExtractorKinds]
    /\ doc = Idle
    /\ RecIdle
    /\ SegIdle
    /\ GeoIdle

\* process_pdf up to the page loop
DocOpen ==
    /\ doc.phase = "idle"
    /\ doc' = DocOpened(doc_input.kind, doc_input.pages)
    /\ UNCHANGED <<doc_input, recVars, segVars, geoVars>>

\* one iteration of the page loop
DocPage ==
    /\ doc.phase = "pages"
    /\ doc.page_num < Len(doc_input.pages)
    /\ doc' = DocAfterPage(doc_input.kind, doc_input.pages, doc)
    /\ UNCHANGED <<doc_input, recVars, segVars, geoVars>>

\* the return after the last page
DocReturn ==
    /\ doc.phase = "pages"
    /\ doc.page_num = Len(doc_input.pages)
    /\ doc' = [doc EXCEPT !.phase = "returned"]
    /\ UNCHANGED <<doc_input, recVars, segVars, geoVars>>

\* save_to_database on the dict process_pdf returned, with and without a
\* database session
DocSave ==
    /\ doc.phase = "returned"
    /\ doc_input.kind = "grades"
    /\ doc.saved = None
    /\ \E db_session \in BOOLEAN :
          With(save_to_database(doc.subject_mapping, doc.all_students, db_session),
               LAMBDA r :
              doc' = [doc EXCEPT !.saved = Some([db_session |-> db_session,
                                                returned |-> r.returned]),
                                 !.subject_mapping = r.subject_mapping])
    /\ UNCHANGED <<doc_input, recVars, segVars, geoVars>>

\* _create_dataframe on the dict process_pdf returned
DocFrame ==
    /\ doc.phase = "returned"
    /\ doc_input.kind = "grades"
    /\ doc.frame = None
    /\ With(_create_dataframe(doc.subject_mapping, doc.all_students), LAMBDA r :
          doc' = [doc EXCEPT !.frame = Some(r.frame),
                             !.subject_mapping = r.subject_mapping])
    /\ UNCHANGED <<doc_input, recVars, segVars, geoVars>>

\* the steps of process_pdf
ProcessPdf == DocOpen \/ DocPage \/ DocReturn

NextDoc == ProcessPdf \/ DocSave \/ DocFrame

SpecDoc == InitDoc /\ [][NextDoc]_vars

(***************************************************************************)
(* SpecRecDoc: the record decoder on one block, or process_pdf on one      *)
(* document                                                                *)
(***************************************************************************)
InitRecDoc == InitRec \/ InitDoc

\* the steps of whichever of the two was started
NextRecDoc == (rec_input # Idle /\ NextRec) \/ (doc_input # Idle /\ NextDoc)

SpecRecDoc == InitRecDoc /\ [][NextRecDoc]_vars

(***************************************************************************)
(* _deduplicate_lines on its own: a sorted list of y coordinates is        *)
(* clustered, and the outcome clustered again with the same threshold      *)
(***************************************************************************)
MaxLines == 4

MaxPasses == 2

\* y coordinates: whole and half points of a page, and 2.7 with the first float
\* more than 5 above it
LineValues ==
    {DOfDecimal(27, 10), NextUp(DAdd(DOfDecimal(27, 10), DOfNat(5))),
     DOfNat(91), DOfNat(294), DOfDecimal(2965, 10), DOfNat(299)}

Thresholds == {DOfNat(DedupThreshold), DOfDecimal(25, 10)}

Ascending(lines) == \A i \in 1..(Len(lines) - 1) : DLeq(lines[i], lines[i + 1])

InitDedup ==
    /\ ded_input \in [lines : {l \in SeqsUpTo(LineValues, MaxLines) : Ascending(l)},
                      threshold : Thresholds,
                      py : PyRuntimes]
    /\ ded = [passes |-> 0, lines |-> ded_input.lines, previous |-> ded_input.lines]
    /\ CropIdle
    /\ TextIdle

Deduplicate ==
    /\ ded.passes < MaxPasses
    /\ ded' = [passes |-> ded.passes + 1,
               lines |-> _deduplicate_lines(ded_input.py, ded.lines, ded_input.threshold),
               previous |-> ded.lines]
    /\ UNCHANGED <<ded_input, cropVars, textVars>>

NextDedup == Deduplicate

SpecDedup == InitDedup /\ [][NextDedup]_vars

(***************************************************************************)
(* The crop functions on a document: one call, with arguments from small   *)
(* sets, on a page whose drawing is a few paths.  MuPDF holds coordinates  *)
(* in single precision; the ones here are whole points.                    *)
(***************************************************************************)
MaxPaths == 2

MaxCrops == 2

Line(x1, y1, x2, y2) == <<"l", <<DOfNat(x1), DOfNat(y1)>>, <<DOfNat(x2), DOfNat(y2)>>>>

Bar(x0, y0, x1, y1) == <<"re", <<DOfNat(x0), DOfNat(y0), DOfNat(x1), DOfNat(y1)>>>>

\* the rules around two student records
TwoStudentFrame == <<Line(0, 91, 595, 91), Line(0, 294, 595, 294), Line(0, 497, 595, 497)>>

\* the rules around one record, the lower one drawn first and from the right,
\* and once more exactly the clustering threshold further down
OneStudentFrame == <<Line(595, 326, 0, 326), Line(0, 91, 595, 91), Line(0, 331, 595, 331)>>

\* a rule drawn twice: as a thin bar and as a stroke that is not quite level
DoubledRule == <<Bar(0, 293, 595, 295), Line(0, 296, 595, 297)>>

\* a rule above the footer among strokes that are no separators: too short,
\* too steep, too thick, a curve
FooterArt ==
    <<Line(0, 400, 150, 400), Line(0, 600, 595, 603), Line(0, 700, 595, 700),
      Bar(0, 500, 595, 510), <<"c">>>>

DrawnPaths == {TwoStudentFrame, OneStudentFrame, DoubledRule, FooterArt}

\* strokes on the edge of the two tests: a span of exactly the boundary
\* minimum, one of exactly the line minimum, a slope of exactly the tolerance,
\* a bar of exactly that height, a bar just under it of the line minimum's
\* width, and an upright stroke
ThresholdStrokes ==
    <<Line(0, 650, 200, 650), Line(100, 660, 0, 660), Line(0, 670, 595, 673),
      Bar(0, 680, 200, 683), Bar(0, 690, 100, 692), Line(300, 700, 300, 800)>>

\* A4 pages with every drawing of up to MaxPaths paths, a letter page, and a
\* page whose drawings cannot be read
CropPages ==
    {[width |-> DOfNat(595), paths |-> p, readable |-> TRUE] : p \in SeqsUpTo(DrawnPaths, MaxPaths)}
    \cup {[width |-> DOfNat(612), paths |-> <<TwoStudentFrame>>, readable |-> TRUE],
          [width |-> DOfNat(595), paths |-> <<TwoStudentFrame>>, readable |-> FALSE],
          [width |-> DOfNat(595), paths |-> <<ThresholdStrokes>>, readable |-> TRUE]}

StudentIndexes == {-3, -1, 0, 1, 2}

\* <<page_num, student_index, env>> of the calls of crop_single_student: every
\* index on the page, the first and the last under each failure of the file
\* system, one call on a page the document does not have
SingleCalls ==
    ({0} \X StudentIndexes \X {"ok"})
    \cup ({0} \X {0, 2} \X {"open_fails", "save_fails"})
    \cup {<<1, 0, "ok">>}

\* <<page_num, student_index, total_students_on_page>> of the legacy calls
FixedCalls == ({0} \X {-1, 0, 1, 2} \X (1..3)) \cup {<<1, 0, 2>>}

OutputPath(page_num, student_index) ==
    "page" \o StrOfNat(page_num) \o "_student"
    \o (IF student_index < 0 THEN "-" \o StrOfNat(0 - student_index) ELSE StrOfNat(student_index))
    \o ".pdf"

CropRequest(page_num, student_index) ==
    [page |-> page_num, student_index |-> student_index,
     output_path |-> OutputPath(page_num, student_index)]

FixedRequest(page_num, student_index, total) ==
    [page |-> page_num, student_index |-> student_index,
     output_path |-> OutputPath(page_num, student_index),
     total_students_on_page |-> total]

InitCrop ==
    /\ crop_input \in [doc : {<<p>> : p \in CropPages}, py : PyRuntimes]
    /\ crop = Idle
    /\ DedIdle
    /\ TextIdle

CropDetect ==
    /\ crop = Idle
    /\ \E page_num \in 0..(Len(crop_input.doc) - 1),
          min_line_length \in {LineMinLength, BoundaryMinLength} :
          crop' = [op |-> "detect_student_boundaries",
                   page_num |-> page_num,
                   min_line_length |-> min_line_length,
                   boundaries |-> detect_student_boundaries(crop_input.py,
                                      crop_input.doc[page_num + 1], min_line_length)]
    /\ UNCHANGED <<crop_input, dedVars, textVars>>

\* what is kept of a call that crops one student: the request and the result r
SingleCropDone(op, c, env, r) ==
    [op |-> op, page_crops |-> <<c>>, env |-> env,
     returned |-> r.returned, crop_rect |-> r.crop_rect, saved |-> r.saved]

\* what is kept of a call that crops a list of requests
MultipleCropDone(op, page_crops, r) ==
    [op |-> op, page_crops |-> page_crops, env |-> "ok",
     returned |-> r.successful_crops, saved |-> r.saved]

CropSingle ==
    /\ crop = Idle
    /\ \E call \in SingleCalls :
          crop' = SingleCropDone("crop_single_student", CropRequest(call[1], call[2]), call[3],
                                 crop_single_student(crop_input.py, crop_input.doc, call[1],
                                                     call[2], OutputPath(call[1], call[2]),
                                                     call[3]))
    /\ UNCHANGED <<crop_input, dedVars, textVars>>

CropSingleFixed ==
    /\ crop = Idle
    /\ \E call \in FixedCalls :
          crop' = SingleCropDone("crop_single_student_fixed",
                                 FixedRequest(call[1], call[2], call[3]), "ok",
                                 crop_single_student_fixed(crop_input.doc, call[1], call[2],
                                                           OutputPath(call[1], call[2]),
                                                           call[3], "ok"))
    /\ UNCHANGED <<crop_input, dedVars, textVars>>

CropMultiple ==
    /\ crop = Idle
    /\ \E page_crops \in SeqsUpTo({CropRequest(0, i) : i \in 0..1}, MaxCrops) :
          crop' = MultipleCropDone("crop_multiple_students", page_crops,
                                   crop_multiple_students(crop_input.py, crop_input.doc,
                                                          page_crops, "ok"))
    /\ UNCHANGED <<crop_input, dedVars, textVars>>

CropMultipleFixed ==
    /\ crop = Idle
    /\ \E page_crops \in SeqsUpTo({FixedRequest(0, i, 2) : i \in {0, 2}}, MaxCrops) :
          crop' = MultipleCropDone("crop_multiple_students_fixed", page_crops,
                                   crop_multiple_students_fixed(crop_input.doc, page_crops, "ok"))
    /\ UNCHANGED <<crop_input, dedVars, textVars>>

\* <<page_num, env>> of the calls of crop_all_students_on_page
AllOnPageCalls == ({0} \X CropEnvs) \cup {<<1, "ok">>}

OutputDir == "out"
BaseFilename == "result"

CropAllOnPage ==
    /\ crop = Idle
    /\ \E call \in AllOnPageCalls :
          With(crop_all_students_on_page(crop_input.py, crop_input.doc, call[1],
                                         OutputDir, BaseFilename, call[2]), LAMBDA r :
              crop' = [op |-> "crop_all_students_on_page", page_num |-> call[1],
                       env |-> call[2], returned |-> r.successful_crops,
                       saved |-> r.saved])
    /\ UNCHANGED <<crop_input, dedVars, textVars>>

NextCrop ==
    \/ CropDetect
    \/ CropSingle
    \/ CropSingleFixed
    \/ CropMultiple
    \/ CropMultipleFixed
    \/ CropAllOnPage

SpecCrop == InitCrop /\ [][NextCrop]_vars

(***************************************************************************)
(* SpecBatch: process_single_pdf on one document, given by the text of its *)
(* pages and by their drawings                                             *)
(***************************************************************************)
\* a result page whose first block has no name and whose second is complete
HalfDecodedPage ==
    [text |-> Join(<<ColumnHeader, BlockText([DefaultInput EXCEPT !.names = <<>>]),
                     BlockText(OtherInput)>>, "\n"),
     tables |-> <<>>]
\* a result page with three complete blocks
CrowdedPage ==
    [text |-> Join(<<ColumnHeader, BlockText(DefaultInput), BlockText(OtherInput),
                     BlockText([DefaultInput EXCEPT !.names = <<"RAHUL", "RAHUL">>])>>, "\n"),
     tables |-> <<>>]
\* a result page with a block without enrollment reference and a block
\* without status keyword
UnenrolledPage ==
    [text |-> Join(<<ColumnHeader, BlockText([DefaultInput EXCEPT !.ern = "none"]),
                     BlockText([DefaultInput EXCEPT !.status = ""])>>, "\n"),
     tables |-> <<>>]

BatchTexts == {TitlePage, ResultPage, HalfDecodedPage, CrowdedPage, UnenrolledPage}

\* the drawings of a page with two bands, with one band, with none
BatchDrawings ==
    {[width |-> DOfNat(595), paths |-> p, readable |-> TRUE] :
        p \in {<<TwoStudentFrame>>, <<OneStudentFrame>>, <<>>}}

\* documents of one page, and of a title page followed by one page
BatchDocuments ==
    {[text |-> <<t>>, drawn |-> <<g>>] : t \in BatchTexts, g \in BatchDrawings}
    \cup {[text |-> <<TitlePage, t>>, drawn |-> <<g, g>>] :
             t \in BatchTexts \ {TitlePage}, g \in BatchDrawings}

\* the metadata file of the document: missing, without semester, complete
BatchMetadata ==
    {None, Some([semester |-> None]), Some([semester |-> Some("Semester - III")])}

\* the tables before the call: empty, holding the student, holding the
\* student and a record of the student for the examination
BatchTables ==
    {[students |-> {}, records |-> {}], [students |-> {Enrollment}, records |-> {}],
     [students |-> {Enrollment}, records |-> {Enrollment}]}

InitBatch ==
    /\ \E d \in BatchDocuments, py \in PyRuntimes :
          /\ doc_input = [pages |-> d.text, kind |-> "simple"]
          /\ crop_input = [doc |-> d.drawn, py |-> py]
    /\ doc = Idle
    /\ crop = Idle
    /\ RecIdle
    /\ SegIdle
    /\ DedIdle

BatchStart ==
    /\ crop = Idle
    /\ \E metadata \in BatchMetadata, db \in BatchTables :
          crop' = BatchStarted(metadata, db)
    /\ UNCHANGED <<crop_input, dedVars, textVars>>

\* SimpleStudentExtractor(pdf_path).process_pdf()
BatchExtract ==
    /\ crop # Idle
    /\ crop.phase = "extracting"
    /\ ProcessPdf
    /\ UNCHANGED crop

BatchStudents ==
    /\ crop # Idle
    /\ crop.phase = "extracting"
    /\ doc.phase = "returned"
    /\ crop' = BatchExtracted(crop, doc.all_students)
    /\ UNCHANGED <<crop_input, dedVars, textVars>>

BatchStudent ==
    /\ crop # Idle
    /\ crop.phase = "students"
    /\ crop.idx < Len(doc.all_students)
    /\ \E env \in CropEnvs :
          crop' = BatchStudentDone(crop, doc.all_students, crop_input.py, crop_input.doc, env)
    /\ UNCHANGED <<crop_input, dedVars, textVars>>

BatchFinish ==
    /\ crop # Idle
    /\ crop.phase = "students"
    /\ crop.idx = Len(doc.all_students)
    /\ crop' = BatchFinished(crop, doc.all_students)
    /\ UNCHANGED <<crop_input, dedVars, textVars>>

NextBatch == BatchStart \/ BatchExtract \/ BatchStudents \/ BatchStudent \/ BatchFinish

SpecBatch == InitBatch /\ [][NextBatch]_vars

(***************************************************************************)
(* SpecAll: process_all_pdfs on the files of the downloads directory       *)
(***************************************************************************)
MaxPdfs == 2

CompleteMetadata == Some([semester |-> Some("Semester - III")])

\* a PDF of one result page with two students and its rules
ResultPdf ==
    [text |-> <<ResultPage>>,
     drawn |-> <<[width |-> DOfNat(595), paths |-> <<TwoStudentFrame>>, readable |-> TRUE]>>,
     metadata |-> CompleteMetadata, opens |-> TRUE]

\* the same without its metadata file, a PDF that holds a title page alone, and
\* a file that cannot be opened
PdfFiles ==
    {ResultPdf,
     [ResultPdf EXCEPT !.metadata = None],
     [ResultPdf EXCEPT !.text = <<TitlePage>>],
     [ResultPdf EXCEPT !.opens = FALSE]}

\* process_all_pdfs: the call up to the loop              batch_processor.py:382-402
AllStarted(pdf_files) ==
    [op |-> "process_all_pdfs",
     phase |-> IF pdf_files = <<>> THEN "returned" ELSE "files",
     idx |-> 0, attempted |-> <<>>, results |-> <<>>, stats |-> BatchStats,
     db_students |-> {Enrollment}, db_records |-> {}]

\* one iteration of `for idx, pdf_path in enumerate(pdf_files, 1)`, whose
\* result the loop does not read                        batch_processor.py:405-407
AllAfterPdf(a, pdf_files, py) ==
    With(process_single_pdf(a.stats, [students |-> a.db_students, records |-> a.db_records],
                            pdf_files[a.idx + 1], py), LAMBDA b :
        [a EXCEPT !.idx = @ + 1,
                  !.attempted = Append(@, a.idx + 1),
                  !.results = Append(@, b.returned[1]),
                  !.stats = b.stats,
                  !.db_students = b.db_students,
                  !.db_records = b.db_records])

InitAll ==
    /\ crop_input \in [pdf_files : SeqsUpTo(PdfFiles, MaxPdfs), py : PyRuntimes]
    /\ crop = Idle
    /\ DedIdle
    /\ TextIdle

AllStart ==
    /\ crop = Idle
    /\ crop' = AllStarted(crop_input.pdf_files)
    /\ UNCHANGED <<crop_input, dedVars, textVars>>

AllPdf ==
    /\ crop # Idle
    /\ crop.phase = "files"
    /\ crop.idx < Len(crop_input.pdf_files)
    /\ crop' = AllAfterPdf(crop, crop_input.pdf_files, crop_input.py)
    /\ UNCHANGED <<crop_input, dedVars, textVars>>

\* the statistics are logged and returned
AllReturn ==
    /\ crop # Idle
    /\ crop.phase = "files"
    /\ crop.idx = Len(crop_input.pdf_files)
    /\ crop' = [crop EXCEPT !.phase = "returned"]
    /\ UNCHANGED <<crop_input, dedVars, textVars>>

NextAll == AllStart \/ AllPdf \/ AllReturn

SpecAll == InitAll /\ [][NextAll]_vars

(***************************************************************************)
(* SpecNames: generate_student_filename called again and again with one    *)
(* existing_files set                                                      *)
(***************************************************************************)
MaxCalls == 3

NameSemester == "Semester - III"

\* students that differ in enrollment number and status, and one whose status
\* is None, for whom the call raises
NameStudents ==
    {[ern |-> Some(e), seat_no |-> Some(SeatNo), status |-> s,
      college_code |-> Some("MU-101")] :
        e \in {Enrollment, "MU0011111"}, s \in {Some("Regular"), Some("ATKT")}}
    \cup {[ern |-> Some(Enrollment), seat_no |-> Some(SeatNo), status |-> None,
           college_code |-> Some("MU-101")]}

RegularStudent ==
    [ern |-> Some(Enrollment), seat_no |-> Some(SeatNo), status |-> Some("Regular"),
     college_code |-> Some("MU-101")]

\* the set before the first call: empty, or holding the plain name of a
\* student and the name with counter 3
NameFilesBefore ==
    {{}, {FilenameStem(RegularStudent, NameSemester) \o ".pdf",
          FilenameStem(RegularStudent, NameSemester) \o "_3.pdf"}}

NamesStarted(existing_files) ==
    [op |-> "generate_student_filename", existing_files |-> existing_files,
     students |-> <<>>, returned |-> <<>>]

InitNames ==
    /\ crop_input \in [existing_files : NameFilesBefore, semester : {NameSemester}]
    /\ crop = NamesStarted(crop_input.existing_files)
    /\ DedIdle
    /\ TextIdle

\* one call: the name is returned and added to the set
NameCall ==
    /\ Len(crop.returned) < MaxCalls
    /\ \E student \in NameStudents :
          crop' = With(generate_student_filename(student, crop_input.semester,
                                                 crop.existing_files),
                       LAMBDA filename :
                          [crop EXCEPT !.existing_files = FilesAfter(@, filename),
                                       !.students = Append(@, student),
                                       !.returned = Append(@, filename)])
    /\ UNCHANGED <<crop_input, dedVars, textVars>>

NextNames == NameCall

SpecNames == InitNames /\ [][NextNames]_vars


(***************************************************************************)
(* Properties of the record decoder, checked under SpecRec                 *)
(***************************************************************************)
Decoded == ps.phase = "done"

\* the tokens printed after the seat number on the seat-number line
HeaderTokens(in) ==
    SelectSeq(in.names \o <<in.status, in.after,
                             IF in.ern = "inline" THEN "(" \o Enrollment \o ")" ELSE "">>,
              LAMBDA t : t # "")

\* the place of the first token of `toks` that is in `keywords`, 0 without one
FirstKeyword(toks, keywords) == First(1, Len(toks), LAMBDA j : toks[j] \in keywords)

\* C1: every record the validator accepts has external, internal, total and
\* grade lists of one common length, and that length is the number of the
\* record's subject codes.
C1_AcceptedLengthsEqualCodes ==
    accepted = Some(TRUE) =>
        /\ Len(ps.student.external_marks) = Len(ps.student.internal_marks)
        /\ Len(ps.student.external_marks) = Len(ps.student.total_marks_list)
        /\ Len(ps.student.external_marks) = Len(ps.student.grades)
        /\ Len(ps.student.external_marks) = Len(ps.student.subject_codes)

\* C1, its first half alone: the four lists of an accepted record agree.
C1_AcceptedLengthsAgree ==
    accepted = Some(TRUE) =>
        /\ Len(ps.student.external_marks) = Len(ps.student.internal_marks)
        /\ Len(ps.student.external_marks) = Len(ps.student.total_marks_list)
        /\ Len(ps.student.external_marks) = Len(ps.student.grades)

\* an accepted record with fewer marks than subject codes
C1_AcceptedShortOfCodes ==
    /\ accepted = Some(TRUE)
    /\ Len(ps.student.external_marks) < Len(ps.student.subject_codes)

\* C8: a TOT row of n well-formed quintuples followed by the total credit, the
\* intermediate sum and the weighted average, decoded with n subject codes,
\* gives sgpa = the last decimal, total_credits = the trailing integer and the
\* five per-subject lists = the quintuples' fields, in row order.
C8_AggregateRow ==
    LET q == rec_input.quints
        st == ps.student
    IN  Decoded /\ Len(q) = Len(st.subject_codes) =>
            /\ st.sgpa = Some(rec_input.tot_tail.sgpa)
            /\ st.total_credits = Some(rec_input.tot_tail.total_credits)
            /\ st.total_marks_list = [k \in 1..Len(q) |-> q[k].total]
            /\ st.grade_points = [k \in 1..Len(q) |-> q[k].gp]
            /\ st.grades = [k \in 1..Len(q) |-> q[k].grade]
            /\ st.credits = [k \in 1..Len(q) |-> q[k].credit]
            /\ st.grade_credits = [k \in 1..Len(q) |-> Some(q[k].gc)]

\* 'TOT 45 8 B 2.00 16.00 50 9 A+ 2.00 18.00 4 34.00 8.50' with 2 codes, decoded
C8_Witness ==
    /\ Decoded
    /\ AggregateRowOf(rec_input) = "TOT 45 8 B 2.00 16.00 50 9 A+ 2.00 18.00 4 34.00 8.50"
    /\ Len(ps.student.subject_codes) = 2
    /\ ps.student.sgpa = Some(<<17, 2>>)
    /\ ps.student.total_credits = Some(4)
    /\ ps.student.total_marks_list = <<45, 50>>
    /\ ps.student.grades = <<"B", "A+">>

\* C9: an E1 row whose subjects are printed as '<integer> P' or as
\* '<integer> 0 F <decimal>', decoded with one subject code per subject, gives
\* one external mark per subject, the leading integer of its entry, in row
\* order, with or without the MARKS suffix.
C9_ExternalRow ==
    LET e == rec_input.ext
    IN  Decoded /\ Len(e) = Len(ps.student.subject_codes) =>
            ps.student.external_marks = [k \in 1..Len(e) |-> e[k].mark]

\* 'E1 45 P 0 0 F 5.5 MARKS' with 2 codes, decoded as [45, 0]
C9_Witness ==
    /\ Decoded
    /\ ExternalRowOf(rec_input) = "E1 45 P 0 0 F 5.5 MARKS"
    /\ Len(ps.student.subject_codes) = 2
    /\ ps.student.external_marks = <<45, 0>>

\* what C10 says of a seat-number line whose first status keyword, among
\* `keywords`, is at place k of the tokens after the seat number
HeaderAsClaimed(keywords) ==
    LET toks == HeaderTokens(rec_input)
        k == FirstKeyword(toks, keywords)
        st == ps.student
    IN  ps.phase # "idle" /\ k # 0 =>
            /\ st.seat_no = Some(SeatNo)
            /\ st.status = Some(toks[k])
            /\ st.name = IF k > 1 THEN Some(Join(SubSeq(toks, 1, k - 1), " ")) ELSE None
            /\ st.gender = IF k < Len(toks) /\ toks[k + 1] \in {"MALE", "FEMALE", "OTHER"}
                           THEN Some(toks[k + 1])
                           ELSE None
            /\ (rec_input.ern # "none" => st.ern = Some(Enrollment))

\* C10: for a seat-number line 'S n1 ... nk STATUS [GENDER]', STATUS the first
\* status keyword of {Regular, ATKT, Ex-Student, Repeater} on the line, the
\* decoded seat_no is S, name is n1 ... nk joined by single spaces (null when
\* k = 0), status is STATUS, gender is the token after STATUS when it is MALE,
\* FEMALE or OTHER and null otherwise, and ern is the enrollment reference
\* printed anywhere in the header lines.
C10_HeaderDecode == HeaderAsClaimed(StatusKeywords)

\* C10 for the keywords the decoder searches for
C10_HeaderDecodeKnownKeywords == HeaderAsClaimed(status_keywords)

\* a Repeater's seat-number line, decoded without a status
C10_RepeaterUndecoded ==
    /\ ps.phase # "idle"
    /\ rec_input.status = "Repeater"
    /\ rec_input.names = <<"RAHUL">>
    /\ ps.student.status = None
    /\ ps.student.name = None

\* the validator's answer for the block with Regular in place of its status
\* keyword: whether the block is well formed but for its keyword
AcceptedAsRegular(in) ==
    validate_student_record(parse_student_record(BlockText([in EXCEPT !.status = "Regular"]),
                                                 2, CodeList(in.codes.p)))

\* what C18 says of a seat-number line whose first status keyword is among
\* `keywords`
KeywordDecoded(keywords) ==
    With(HeaderTokens(rec_input), LAMBDA toks :
    With(FirstKeyword(toks, keywords), LAMBDA k :
        /\ ps.phase # "idle" /\ k # 0 =>
              /\ ps.student.status = Some(toks[k])
              /\ ps.student.name = IF k > 1 THEN Some(Join(SubSeq(toks, 1, k - 1), " "))
                                    ELSE None
        /\ (accepted # None /\ k > 1 /\ rec_input.status = toks[k]
             /\ AcceptedAsRegular(rec_input)) =>
              /\ ps.student.status # None
              /\ ps.student.name # None
              /\ accepted = Some(TRUE)))

\* C18: for each keyword K of the closed set {Regular, ATKT, Ex-Student,
\* Repeater}, a seat-number line whose first status keyword is K is decoded by
\* the full extractor with status = K and with the tokens before K as the
\* name; in particular a Repeater student with an otherwise well-formed block
\* is decoded with non-null status and name and is accepted by the validator.
C18_EveryKeywordDecoded == KeywordDecoded(StatusKeywords)

\* C18 for the keywords of status_keywords
C18_SearchedKeywordsDecoded == KeywordDecoded(status_keywords)

\* a Repeater whose block is accepted when it reads Regular, and rejected as
\* it is
C18_RepeaterRejected ==
    /\ accepted = Some(FALSE)
    /\ rec_input.status = "Repeater"
    /\ rec_input.names = <<"RAHUL">>
    /\ rec_input.after = "MALE"
    /\ AcceptedAsRegular(rec_input)
    /\ ps.student.seat_no = Some(SeatNo)
    /\ ps.student.status = None

\* none of the three lists is longer than the list of subject codes
RowsWithinCodes(student) ==
    /\ Len(student.external_marks) <= Len(student.subject_codes)
    /\ Len(student.internal_marks) <= Len(student.subject_codes)
    /\ Len(student.total_marks_list) <= Len(student.subject_codes)

\* C12: after parse_student_record has decoded a block, none of
\* external_marks, internal_marks and total_marks_list has more elements than
\* subject_codes, for every number of subject codes, zero included.
C12_RowsWithinCodes == Decoded => RowsWithinCodes(ps.student)

\* C12 for the records that have at least one subject code
C12_RowsWithinCodesWhenCoded ==
    Decoded /\ ps.student.subject_codes # <<>> => RowsWithinCodes(ps.student)

\* a block without subject codes, on a page without any, decoded with three
\* external and three internal marks
C12_MarksBeyondNoCodes ==
    /\ Decoded
    /\ rec_input.codes = [n |-> 0, p |-> 0]
    /\ ps.student.subject_codes = <<>>
    /\ ps.student.external_marks = <<45, 45, 45>>
    /\ ps.student.internal_marks = <<18, 18, 18>>
    /\ ps.student.total_marks_list = <<>>

(***************************************************************************)
(* Properties of the segmenter, checked under SpecSeg                      *)
(***************************************************************************)
\* C2: the blocks find_student_blocks has collected are slices of the page's
\* lines, each holding its lines unchanged and in page order, no line is in
\* two blocks, and the blocks are in ascending order of their first line,
\* also where a block starts on an enrollment continuation line.
C2_BlocksAreOrderedSlices ==
    seg.phase \in {"scan", "cut"} =>
        /\ \A j \in 1..Len(seg.blocks) :
              LET b == seg.blocks[j]
              IN  /\ 0 <= b.start /\ b.start < b.end /\ b.end <= Len(seg_input.lines)
                  /\ SplitOn(b.text, "\n") = SubSeq(seg_input.lines, b.start + 1, b.end)
        /\ \A j \in 1..Len(seg.blocks) : \A k \in (j + 1)..Len(seg.blocks) :
              seg.blocks[j].end <= seg.blocks[k].start

\* three blocks returned, one of them moved back onto its continuation line
C2_Witness ==
    /\ SegReturned(seg)
    /\ Len(seg.blocks) = 3
    /\ \E j \in 2..3 :
          /\ seg_input.lines[seg.blocks[j].start + 1] = ErnLine
          /\ seg.blocks[j - 1].end = seg.blocks[j].start

\* the seat-number anchors of the page, by line index
AnchorLines ==
    {a \in 0..(Len(seg_input.lines) - 1) : IsSeatLine(seg_input.lines[a + 1])}

\* the first line of the block of anchor a, as C20 has it
ClaimedStart(a) ==
    IF a > 0 /\ IsErnLine(seg_input.lines[a]) THEN a - 1 ELSE a

\* the line after the last line of the block of anchor a, as C20 has it: the
\* first line of the next anchor's block, or the end of the page
ClaimedEnd(a) ==
    IF \E b \in AnchorLines : b > a
    THEN ClaimedStart(CHOOSE b \in AnchorLines :
                         b > a /\ \A c \in AnchorLines : c > a => b <= c)
    ELSE Len(seg_input.lines)

\* C20: if the line immediately before a seat-number anchor matches the
\* enrollment continuation pattern '(MU<digits>', that line is the first line
\* of the anchor's block and is not part of the preceding block, which then
\* ends one line earlier; an anchor without such a preceding line starts its
\* block at the anchor line itself.  Lines before the first block start belong
\* to no block.
C20_ContinuationLineStartsBlock ==
    seg.phase = "cut" =>
        /\ Len(seg.student_start_indices) = Cardinality(AnchorLines)
        /\ \A a \in AnchorLines :
              seg.student_start_indices[Cardinality({b \in AnchorLines : b < a}) + 1]
                  = ClaimedStart(a)
        /\ \A j \in 1..Len(seg.blocks) :
              /\ \E a \in AnchorLines :
                    /\ seg.blocks[j].start = ClaimedStart(a)
                    /\ seg.blocks[j].end = ClaimedEnd(a)
              /\ seg.blocks[j].text
                    = Join(SubSeq(seg_input.lines, seg.blocks[j].start + 1,
                                  seg.blocks[j].end), "\n")
              /\ \A a \in AnchorLines : seg.blocks[j].start >= ClaimedStart(a)
                                          \/ \E b \in AnchorLines : b < a

\* a page that begins with four lines of no block; its first block ends
\* where the continuation line of the second begins
C20_Witness ==
    /\ SegReturned(seg)
    /\ Len(seg.blocks) = 2
    /\ ~IsSeatLine(seg_input.lines[1])
    /\ seg.blocks[1].start = 4
    /\ seg.blocks[1].end = 8
    /\ seg.blocks[2].start = 8
    /\ seg_input.lines[9] = ErnLine
    /\ IsSeatLine(seg_input.lines[10])
    /\ seg.blocks[2].end = Len(seg_input.lines)

\* the block has a line that, stripped as the decoder strips it, begins with
\* the row marker
HasRow(block_text, marker) ==
    With(SplitOn(block_text, "\n"), LAMBDA lines :
        \E k \in 1..Len(lines) : StartsWith(Strip(lines[k]), marker))

\* C13: every block the full extractor's find_student_blocks has retained
\* holds a line beginning with E1, a line beginning with I1 and a line
\* beginning with TOT; a block without one of the three rows is not retained.
C13_RetainedBlocksHaveRows ==
    seg.phase \in {"scan", "cut"} /\ seg_input.kind = "grades" =>
        \A j \in 1..Len(seg.blocks) :
            /\ HasRow(seg.blocks[j].text, "E1")
            /\ HasRow(seg.blocks[j].text, "I1")
            /\ HasRow(seg.blocks[j].text, "TOT")

\* C13 with the markers anywhere in the block's text
C13_RetainedBlocksHoldMarkers ==
    seg.phase \in {"scan", "cut"} /\ seg_input.kind = "grades" =>
        \A j \in 1..Len(seg.blocks) :
            /\ Contains(seg.blocks[j].text, "E1")
            /\ Contains(seg.blocks[j].text, "I1")
            /\ Contains(seg.blocks[j].text, "TOT")

\* the full extractor returns a block that has no TOT row: the letters TOT are
\* in its college line
C13_RetainedWithoutAggregateRow ==
    /\ SegReturned(seg)
    /\ seg_input.kind = "grades"
    /\ seg_input.lines = <<SeatLine, TotalCollegeLine, ExternalLine, InternalLine>>
    /\ Len(seg.blocks) = 1
    /\ ~HasRow(seg.blocks[1].text, "TOT")

\* the text of candidate j (0-based) of the second loop: the lines from its
\* start index up to the next start index, or to the end of the page
CandidateText(j) ==
    Join(SubSeq(seg.lines, seg.student_start_indices[j + 1] + 1,
                IF j + 1 < Len(seg.student_start_indices)
                THEN seg.student_start_indices[j + 2]
                ELSE Len(seg.lines)), "\n")

\* candidate j is among the blocks kept so far
Retained(j) ==
    \E k \in 1..Len(seg.blocks) : seg.blocks[k].start = seg.student_start_indices[j + 1]

\* every candidate the second loop has been through is kept if and only if
\* its text holds E1, I1 and TOT
RetainedIffAllMarkers(kinds) ==
    seg.phase = "cut" /\ seg_input.kind \in kinds =>
        \A j \in 0..(seg.i - 1) :
            Retained(j) <=> /\ Contains(CandidateText(j), "E1")
                            /\ Contains(CandidateText(j), "I1")
                            /\ Contains(CandidateText(j), "TOT")

\* C14: in the segmenter of each of the three extractors a candidate block is
\* retained if and only if its joined text contains E1, I1 and TOT; a block
\* without one of them, the external marker in particular, is not retained,
\* and nothing else filters blocks.
C14_RetainedIffAllMarkers == RetainedIffAllMarkers(ExtractorKinds)

\* C14 for the full and the simplified extractor
C14_RetainedIffAllMarkersFull == RetainedIffAllMarkers({"grades", "grades_simple"})

\* the lightweight extractor returns a block that holds no E1
C14_RetainedWithoutExternal ==
    /\ SegReturned(seg)
    /\ seg_input.kind = "simple"
    /\ seg_input.lines = <<SeatLine, InternalLine, AggregateLine>>
    /\ Len(seg.blocks) = 1
    /\ ~Contains(seg.blocks[1].text, "E1")

(***************************************************************************)
(* Properties of process_pdf, checked under SpecDoc                        *)
(***************************************************************************)
\* the 0-based page a record of all_students was decoded from
PageIndexOf(kind, student) ==
    IF kind = "grades" THEN student.page_number - 1 ELSE student.page_number

\* no block was cut out of page p and no record of all_students is from it
NothingFrom(p) ==
    /\ p < Len(doc.found) => doc.found[p + 1] = 0
    /\ \A k \in 1..Len(doc.all_students) :
          PageIndexOf(doc_input.kind, doc.all_students[k]) # p

IndexPageYieldsNothing(kinds) ==
    doc.phase \in {"pages", "returned"} /\ doc_input.kind \in kinds =>
        \A p \in 0..(Len(doc_input.pages) - 1) :
            ~Contains(doc_input.pages[p + 1].text, "SEAT NO") => NothingFrom(p)

\* C7: in every extractor's process_pdf, a page whose text does not contain
\* 'SEAT NO' yields no student block and no student record, whatever anchors
\* and row markers its lines hold.
C7_IndexPageYieldsNothing == IndexPageYieldsNothing(ExtractorKinds)

\* C7 for the two identity-only extractors
C7_IndexPageYieldsNothingBasic == IndexPageYieldsNothing({"grades_simple", "simple"})

\* the full extractor returns a record decoded from a page without 'SEAT NO'
C7_RecordFromHeaderlessPage ==
    /\ doc.phase = "returned"
    /\ doc_input.kind = "grades"
    /\ doc_input.pages = <<TitlePage, HeaderlessPage>>
    /\ Len(doc.all_students) = 1
    /\ doc.all_students[1].page_number = 2
    /\ doc.all_students[1].name = Some("PRIYA NAIR")

\* a field that holds a non-empty value
Present(opt) == opt # None /\ opt[1] # ""

\* the four required fields are present and the four lists have one common
\* length greater than 0
ValidAsClaimed(student) ==
    /\ Present(student.seat_no) /\ Present(student.name)
    /\ Present(student.status) /\ Present(student.result)
    /\ Len(student.external_marks) > 0
    /\ {Len(student.internal_marks), Len(student.total_marks_list), Len(student.grades)}
           = {Len(student.external_marks)}

\* the records the full extractor decodes from the blocks of page p (0-based)
PageCandidates(p) ==
    With(doc_input.pages[p + 1].text, LAMBDA page_text :
    With(PageBlocks("grades", p, page_text), LAMBDA blocks :
        [k \in 1..Len(blocks) |->
            parse_student_record(blocks[k], p + 1,
                                 DedupCodes(FindAllCodes(page_text, 1), {}))]))

\* the records decoded from the blocks of pages 0 .. n-1, in block order
RECURSIVE CandidatesBefore(_)
CandidatesBefore(n) ==
    IF n = 0 THEN <<>> ELSE CandidatesBefore(n - 1) \o PageCandidates(n - 1)

\* C11: validate_student_record returns true exactly when seat number, name,
\* status and result are present and the external, internal, total and grade
\* lists have one common length greater than 0; and the students process_pdf
\* has collected are the records decoded from every block of the pages it has
\* been through that pass that test, in block order: a rejected record is
\* left out and the blocks after it, on its page and on later pages, are
\* decoded and validated all the same.
C11_RejectedLeftOutOthersKept ==
    /\ accepted # None => accepted[1] = ValidAsClaimed(ps.student)
    /\ doc.phase \in {"pages", "returned"} /\ doc_input.kind = "grades" =>
           doc.all_students = SelectSeq(CandidatesBefore(doc.page_num), ValidAsClaimed)

\* a page whose first two blocks are rejected and whose third is returned,
\* followed by a page whose two blocks are returned
C11_Witness ==
    /\ doc.phase = "returned"
    /\ doc_input.kind = "grades"
    /\ doc_input.pages = <<TitlePage, RaggedPage, ResultPage>>
    /\ doc.found = <<0, 3, 2>>
    /\ Len(doc.all_students) = 3
    /\ doc.all_students[1].name = Some("PRIYA NAIR")
    /\ doc.all_students[1].page_number = 2
    /\ doc.all_students[2].page_number = 3

\* the members of a sequence that are not None, unwrapped
Found(opts) ==
    With(SelectSeq(opts, LAMBDA o : o # None), LAMBDA kept :
        [k \in 1..Len(kept) |-> kept[k][1]])

\* the <<code, name>> a page offers to the catalog, in processing order: the
\* rows of its tables, then its text lines
PageOccurrences(page) ==
    IF page.text = "" \/ Contains(page.text, "SEAT NO") THEN <<>>
    ELSE With(Flatten(page.tables), LAMBDA rows :
         With(SplitOn(page.text, "\n"), LAMBDA lines :
             Found([k \in 1..Len(rows) |-> MatchCatalogRow(rows[k])])
             \o Found([k \in 1..Len(lines) |-> MatchCatalogLine(lines[k])])))

\* the same for the pages of a document, in page order
Occurrences(pages) == Flatten([k \in 1..Len(pages) |-> PageOccurrences(pages[k])])

\* the place of the first occurrence of a code
FirstOccurrence(occ, code) == First(1, Len(occ), LAMBDA k : occ[k][1] = code)

\* what C15 says of a catalog built from the occurrences occ
FirstOccurrencesKept(subject_mapping, subject_order, occ) ==
    /\ \A k \in 1..Len(subject_mapping) :
          /\ FirstOccurrence(occ, subject_mapping[k][1]) # 0
          /\ subject_mapping[k][2] = occ[FirstOccurrence(occ, subject_mapping[k][1])][2]
    /\ \A i \in 1..Len(subject_mapping) : \A j \in (i + 1)..Len(subject_mapping) :
          subject_mapping[i][1] # subject_mapping[j][1]
    /\ \A i \in 1..Len(subject_order) : \A j \in (i + 1)..Len(subject_order) :
          /\ subject_order[i] # subject_order[j]
          /\ FirstOccurrence(occ, subject_order[i]) < FirstOccurrence(occ, subject_order[j])
    /\ {subject_order[k] : k \in 1..Len(subject_order)} = {occ[k][1] : k \in 1..Len(occ)}
    /\ {subject_order[k] : k \in 1..Len(subject_order)} = DictKeys(subject_mapping)

\* C15: whatever catalog pages, table rows and text lines extract_index_data
\* has been through, subject_mapping[code] is the name of the code's first
\* occurrence in processing order (a later occurrence never overwrites it),
\* subject_order lists every code once, in order of first appearance, and the
\* codes of subject_order are the keys of subject_mapping.
C15_CatalogKeepsFirstOccurrence ==
    doc.phase \in {"pages", "returned"} /\ doc_input.kind = "grades" =>
        FirstOccurrencesKept(doc.subject_mapping, doc.subject_order,
                             Occurrences(doc_input.pages))

\* code 2222222 is on the title page as Physics Lab and in the catalog page's
\* table as Optics; the table's new code 4444444 comes before the text line's
\* 3333333
C15_Witness ==
    /\ doc.phase = "pages"
    /\ doc_input.kind = "grades"
    /\ doc_input.pages = <<TitlePage, CatalogPage>>
    /\ doc.subject_order = <<"1111111", "2222222", "4444444", "3333333">>
    /\ doc.subject_mapping = <<<<"1111111", "Algebra I">>, <<"2222222", "Physics Lab">>,
                               <<"4444444", "Botany">>, <<"3333333", "Chemistry">>>>

C19_CatalogAsBuilt ==
    doc_input.kind = "grades" /\ doc.phase \in {"pages", "returned"} =>
        /\ doc.subject_mapping = extract_index_data(doc_input.pages).subject_mapping
        /\ doc.subject_order = extract_index_data(doc_input.pages).subject_order

StrictlyAscending(lines) == \A i \in 1..(Len(lines) - 1) : DLess(lines[i], lines[i + 1])

\* the page a crop request is about, if the document has it
RequestPage(c) ==
    IF c.page < Len(crop_input.doc) THEN Some(crop_input.doc[c.page + 1]) ELSE None

\* the clustered lines of that page as the crop functions look for them
ClusteredLines(page) == detect_horizontal_lines(crop_input.py, page, BoundaryMinLength)

\* the positions in the clustered lines of the top and the bottom of the band
\* a student index asks for, counted as Python counts a list of bands
BandLines(k, student_index) ==
    LET bands == IF k >= 3 THEN 2 ELSE IF k = 2 THEN 1 ELSE 0
        at == IF student_index < 0 THEN bands + student_index ELSE student_index
    IN IF at >= 0 /\ at < bands /\ student_index < bands THEN Some(<<at + 1, at + 2>>) ELSE None

Detected == crop # Idle /\ crop.op = "detect_student_boundaries"

\* C3: detect_student_boundaries reads the k clustered lines l0 < l1 < ... of
\* a page so: fewer than two give num_students 0 and no band, two give one
\* band (l0, l1), three or more give the two bands (l0, l1) and (l1, l2), the
\* lines after the third ignored; the first band ends where the second
\* starts, and len(students) is num_students.
C3_BandsFromClusteredLines ==
    Detected =>
        LET b == crop.boundaries
            l == detect_horizontal_lines(crop_input.py, crop_input.doc[crop.page_num + 1],
                                         crop.min_line_length)
            k == Len(l)
        IN /\ StrictlyAscending(l)
           /\ b.detected_lines = l
           /\ Len(b.students) = b.num_students
           /\ k < 2 => b.num_students = 0 /\ b.students = <<>>
           /\ k = 2 => /\ b.num_students = 1
                       /\ b.students = <<[y_top |-> l[1], y_bottom |-> l[2]]>>
           /\ k >= 3 => /\ b.num_students = 2
                        /\ b.students = <<[y_top |-> l[1], y_bottom |-> l[2]],
                                          [y_top |-> l[2], y_bottom |-> l[3]]>>
                        /\ b.students[1].y_bottom = b.students[2].y_top

\* C3's case: a page with more than three clustered lines, read as two bands
C3_Witness ==
    /\ Detected
    /\ Len(crop.boundaries.detected_lines) > 3
    /\ crop.boundaries.num_students = 2

\* C4: clustering is idempotent: a second pass of _deduplicate_lines with the
\* same threshold over the outcome of the first returns that outcome.
C4_DedupIdempotent == ded.passes = 2 => ded.lines = ded.previous

\* C4's failing case: the second pass merges two averages the first pass left
C4_SecondPassMerges ==
    /\ ded.passes = 2
    /\ Ascending(ded_input.lines)
    /\ Len(ded.lines) < Len(ded.previous)

DynamicCrop == crop # Idle /\ crop.op \in {"crop_single_student", "crop_multiple_students"}

\* the crop rectangles a dynamic call built, each with its request
BuiltRects ==
    IF crop.op = "crop_single_student"
    THEN IF crop.crop_rect = None THEN {} ELSE {<<crop.page_crops[1], crop.crop_rect[1]>>}
    ELSE {<<crop.page_crops[i], crop.saved[s].crop_rect>> :
             <<i, s>> \in {p \in (1..Len(crop.page_crops)) \X (1..Len(crop.saved)) :
                             crop.saved[p[2]].output_path = crop.page_crops[p[1]].output_path}}

\* C5: every crop rectangle crop_single_student builds is (0, y_top of the
\* band, page width, y_bottom of the band), the band being two neighbouring
\* clustered lines with nothing added above or below, and its bottom is
\* strictly greater than its top.
C5_CropRectIsBand ==
    DynamicCrop =>
        \A cr \in BuiltRects :
            LET page == RequestPage(cr[1])
                rect == cr[2]
            IN /\ page # None
               /\ LET l == ClusteredLines(page[1])
                      at == BandLines(Len(l), cr[1].student_index)
                  IN /\ at # None
                     /\ rect = <<DZero, l[at[1][1]], page[1].width, l[at[1][2]]>>
               /\ DLess(rect[2], rect[4])

\* C5's case: the second band of a page whose middle rule is drawn twice is
\* cropped
C5_Witness ==
    /\ crop # Idle
    /\ crop.op = "crop_single_student"
    /\ crop.returned
    /\ crop.page_crops[1].student_index = 1
    /\ Len(HorizontalLines(crop_input.doc[1], BoundaryMinLength)) > 3

\* whether the clustered lines of a request's page hold a band for its index
NoBandFor(c) ==
    LET page == RequestPage(c)
    IN page # None
       /\ LET k == Len(ClusteredLines(page[1]))
          IN k < 2 \/ c.student_index >= (IF k >= 3 THEN 2 ELSE 1)

BatchReturned ==
    crop # Idle /\ crop.op = "process_single_pdf" /\ crop.phase = "returned"
    /\ crop.returned = Some(TRUE)

\* the student records the text pipeline extracted for a page
RecordsOnPage(p) ==
    Cardinality({k \in 1..Len(doc.all_students) : doc.all_students[k].page_number = p})

\* the bands the boundary detector finds on a page
BandsFoundOnPage(p) ==
    detect_student_boundaries(crop_input.py, crop_input.doc[p + 1],
                              BoundaryMinLength).num_students

\* the outcomes of a student whose crop was saved and counted in students_cropped
CroppedOutcomes ==
    {"cropped, no student row", "cropped, duplicate record", "cropped, recorded"}

\* every student of the page that went through the loop was cropped
EveryCropSucceeded(p) ==
    \A k \in 1..Len(crop.outcomes) :
        crop.outcomes[k].page_number = p => crop.outcomes[k].outcome \in CroppedOutcomes

\* C16: when the number of student records the text pipeline extracts for a
\* page differs from the number of bands the boundary detector finds on that
\* page, the batch processor reports the disagreement for that page: it never
\* completes every crop of that page as a success while the two counts differ.
C16_DisagreementReported ==
    BatchReturned =>
        \A p \in 0..(Len(doc_input.pages) - 1) :
            RecordsOnPage(p) # BandsFoundOnPage(p) => ~EveryCropSucceeded(p)

\* what the code does guarantee: a page with more records than bands has a
\* student whose crop is not completed
C16_SurplusRecordReported ==
    BatchReturned =>
        \A p \in 0..(Len(doc_input.pages) - 1) :
            RecordsOnPage(p) > BandsFoundOnPage(p) => ~EveryCropSucceeded(p)

\* a page with two bands of which the text pipeline decodes the second
\* student alone: that student is cropped to the first band, the call returns
\* True and no crop has failed
C16_FewerRecordsUnreported ==
    /\ BatchReturned
    /\ doc_input.pages = <<HalfDecodedPage>>
    /\ BandsFoundOnPage(0) = 2
    /\ RecordsOnPage(0) = 1
    /\ doc.all_students[1].name = Some("PRIYA NAIR")
    /\ crop.outcomes = <<[page_number |-> 0, outcome |-> "cropped, recorded"]>>
    /\ crop.stats.students_cropped = 1
    /\ Len(crop.saved) = 1
    /\ crop.saved[1].crop_rect = <<DZero, DOfNat(91), DOfNat(595), DOfNat(294)>>

\* ---------------------------------------------------------------------------
\* crop_all_students_on_page
\* ---------------------------------------------------------------------------
AllOnPage == crop # Idle /\ crop.op = "crop_all_students_on_page"

\* the bands detection finds on the page of the call
BandsOnPage ==
    detect_student_boundaries(crop_input.py, crop_input.doc[crop.page_num + 1],
                              BoundaryMinLength).num_students

\* crop_single_student succeeds for the student of this index on the page
SingleCropSucceeds(student_idx) ==
    crop_single_student(crop_input.py, crop_input.doc, crop.page_num, student_idx,
                        StudentCropPath(OutputDir, BaseFilename, student_idx),
                        crop.env).returned

\* C17: for an existing page on which detection finds N bands (N = 1 or 2)
\* and each single-student crop succeeds, crop_all_students_on_page returns
\* exactly N output paths, one per student index 0..N-1 in ascending order; it
\* returns an empty list only when the page does not exist, no band is
\* detected, or every crop fails.
C17_AllOnPageReturnsEveryBand ==
    AllOnPage /\ crop.env # "open_fails" /\ crop.page_num < Len(crop_input.doc) =>
        /\ (BandsOnPage \in {1, 2} /\ \A i \in 0..(BandsOnPage - 1) : SingleCropSucceeds(i)) =>
              crop.returned = [i \in 1..BandsOnPage |->
                                  StudentCropPath(OutputDir, BaseFilename, i - 1)]
        /\ crop.returned = <<>> =>
              \/ BandsOnPage = 0
              \/ \A i \in 0..(BandsOnPage - 1) : ~SingleCropSucceeds(i)

\* what the code does: a page that exists never yields a path
C17_AllOnPageReturnsNothing == AllOnPage => crop.returned = <<>> /\ crop.saved = <<>>

\* a page with two bands, each of which crop_single_student crops, and the call
\* returns the empty list
C17_TwoBandsNoPath ==
    /\ AllOnPage
    /\ crop.env = "ok"
    /\ crop.page_num = 0
    /\ BandsOnPage = 2
    /\ SingleCropSucceeds(0)
    /\ SingleCropSucceeds(1)
    /\ crop.returned = <<>>

\* ---------------------------------------------------------------------------
\* the quintuple scanner of the TOT row, checked under SpecScan
\* ---------------------------------------------------------------------------
Scanning == ps.phase = "tot"

\* the five per-subject lists the scanner appends to
ScanLists(student) ==
    <<student.total_marks_list, student.grade_points, student.grades,
      student.credits, student.grade_credits>>

ScanListLengths(student) == [k \in 1..5 |-> Len(ScanLists(student)[k])]

\* a step that stays in the loop takes five tokens and one entry for each list,
\* or one token and nothing
ScanStepShape ==
    Scanning /\ ps'.phase = "tot" =>
        \/ /\ ps'.i = ps.i + 5
           /\ ScanListLengths(ps'.student) =
                  [k \in 1..5 |-> ScanListLengths(ps.student)[k] + 1]
        \/ /\ ps'.i = ps.i + 1
           /\ ScanLists(ps'.student) = ScanLists(ps.student)

\* the loop is left exactly when the subjects are all taken or no token is left
ScanStopsWhenDone ==
    Scanning /\ ps' # ps =>
        (ps'.phase # "tot" <=>
            \/ Len(ps.student.total_marks_list) >= Len(ps.student.subject_codes)
            \/ ps.i >= Len(ps.parts))

\* the five lists are level and within the subject-code count
ScanListsLevel ==
    ps # Idle =>
        /\ \A k \in 1..5 :
              ScanListLengths(ps.student)[k] = Len(ps.student.total_marks_list)
        /\ Len(ps.student.total_marks_list) <= Len(ps.student.subject_codes)

\* the position stays within the tokens, so the tokens still ahead, which every
\* step of the loop makes fewer, bound the steps that are left
ScanPositionBounded == Scanning => ps.i \in 1..Len(ps.parts)

IsNumberToken(token) == FloatOf(token) # None

\* a token that reads as an integer, with signs or without
IsIntegerToken(token) == ~IsGradeToken(token)

Last(seq) == seq[Len(seq)]

\* the step took the five tokens at the position as one subject
QuintupleTaken == Scanning /\ ps'.phase = "tot" /\ ps'.i = ps.i + 5

\* what is asked of the five tokens of a quintuple that is taken, the third of
\* them passing IsGrade, and of the five values it leaves
TakenQuintupleChecked(IsGrade(_)) ==
    QuintupleTaken =>
        /\ IsDigitStr(ps.parts[ps.i + 1])
        /\ IntOf(ps.parts[ps.i + 1]) \in 0..50
        /\ IsDigitStr(ps.parts[ps.i + 2])
        /\ IsGrade(ps.parts[ps.i + 3])
        /\ Last(ps'.student.total_marks_list) = IntOf(ps.parts[ps.i + 1])
        /\ Last(ps'.student.grade_points) = IntOf(ps.parts[ps.i + 2])
        /\ Last(ps'.student.grades) = ps.parts[ps.i + 3]
        /\ (~IsNumberToken(ps.parts[ps.i + 4]) =>
                Last(ps'.student.credits) = <<2, 1>>)
        /\ (~IsNumberToken(ps.parts[ps.i + 5]) =>
                Last(ps'.student.grade_credits) = None)

\* what is asked of the lists in every state, the grades passing IsGrade
TakenListsChecked(IsGrade(_)) ==
    ps # Idle =>
        /\ \A k \in 1..Len(ps.student.total_marks_list) :
              ps.student.total_marks_list[k] \in 0..50
        /\ \A k \in 1..Len(ps.student.grade_points) :
              ps.student.grade_points[k] \in Nat
        /\ \A k \in 1..Len(ps.student.grades) : IsGrade(ps.student.grades[k])

\* C22: a quintuple is accepted only if its first token is an integer in
\* 0..50, its second an integer and its third no number: every total in
\* total_marks_list is in 0..50, every grade point is an integer and no entry
\* of grades is a number, integer or decimal; a fourth token that is no number
\* gives the credit 2.0 and a fifth that is none gives a null credit product.
C22_AcceptedQuintupleWellFormed ==
    /\ []TakenListsChecked(LAMBDA token : ~IsNumberToken(token))
    /\ [][TakenQuintupleChecked(LAMBDA token : ~IsNumberToken(token))]_vars

\* C22 with "no number" read as the code tests it: no integer
C22_AcceptedGradeNoInteger ==
    /\ []TakenListsChecked(LAMBDA token : ~IsIntegerToken(token))
    /\ [][TakenQuintupleChecked(LAMBDA token : ~IsIntegerToken(token))]_vars

\* 'TOT 45 8 7.5 2.00 16.00 4 34.00 8.50' with one subject code: the decimal
\* is in grades
C22_DecimalTakenAsGrade ==
    /\ Decoded
    /\ AggregateRowOf(rec_input) = "TOT 45 8 7.5 2.00 16.00 4 34.00 8.50"
    /\ Len(ps.student.subject_codes) = 1
    /\ ps.student.total_marks_list = <<45>>
    /\ ps.student.grade_points = <<8>>
    /\ ps.student.grades = <<"7.5">>

\* ---------------------------------------------------------------------------
\* the raw-line fallback of the catalog, checked under SpecDoc
\* ---------------------------------------------------------------------------
Codes(found) == {found[k][1] : k \in 1..Len(found)}

\* the codes of the table rows of a page that match a 7-digit code
TableRowCodes(page) ==
    With(Flatten(page.tables), LAMBDA rows :
        Codes(Found([k \in 1..Len(rows) |-> MatchCatalogRow(rows[k])])))

\* the codes of the text lines of a page that read '<code> <text> 2.00 8.00'
RawLineCodes(page) ==
    With(SplitOn(page.text, "\n"), LAMBDA lines :
        Codes(Found([k \in 1..Len(lines) |-> MatchCatalogLine(lines[k])])))

IsIndexPage(page) == page.text # "" /\ ~Contains(page.text, "SEAT NO")

\* the codes an index page gives when its lines are read only for want of a
\* matching table row
CodesWithFallback(page) ==
    IF ~IsIndexPage(page) THEN {}
    ELSE IF TableRowCodes(page) # {} THEN TableRowCodes(page)
    ELSE RawLineCodes(page)

\* the codes an index page gives when its lines are read as well as its rows
CodesOfRowsAndLines(page) ==
    IF ~IsIndexPage(page) THEN {} ELSE TableRowCodes(page) \cup RawLineCodes(page)

CatalogBuilt == doc_input.kind = "grades" /\ doc.phase \in {"pages", "returned"}

\* C23: on an index page the raw-line fallback gives catalog entries only when
\* no table row of the page matched a 7-digit code: with a matching row, the
\* page gives the catalog the codes of its table rows and no code that only a
\* raw line holds.
C23_FallbackOnlyWithoutTableRows ==
    CatalogBuilt =>
        DictKeys(doc.subject_mapping) =
            UNION {CodesWithFallback(doc_input.pages[k]) : k \in 1..Len(doc_input.pages)}

\* what the code does: the lines of every index page are read after its tables
C23_LinesAlwaysRead ==
    CatalogBuilt =>
        DictKeys(doc.subject_mapping) =
            UNION {CodesOfRowsAndLines(doc_input.pages[k]) : k \in 1..Len(doc_input.pages)}

\* the one-page document of a table with the rows 2222222 and 4444444 and the
\* line '3333333 Chemistry 2.00 8.00': the line's code is in the catalog
C23_RawLineCodeBesideTableRows ==
    /\ CatalogBuilt
    /\ doc_input.pages = <<CatalogPage>>
    /\ TableRowCodes(CatalogPage) = {"2222222", "4444444"}
    /\ RawLineCodes(CatalogPage) = {"3333333"}
    /\ doc.subject_order = <<"2222222", "4444444", "3333333">>
    /\ DictGet(doc.subject_mapping, "3333333", "") = "Chemistry"

\* ---------------------------------------------------------------------------
\* the exam kind of the title line, checked under SpecDoc
\* ---------------------------------------------------------------------------
\* the first line of page 1 that holds 'Bachelor' or 'OFFICE REGISTER', None
\* without one
TitleLineOf(pages) ==
    IF pages = <<>> THEN None
    ELSE With(SplitOn(pages[1].text, "\n"), LAMBDA lines :
         With(First(1, Len(lines), LAMBDA j : Contains(lines[j], "Bachelor")
                                             \/ Contains(lines[j], "OFFICE REGISTER")),
              LAMBDA k : IF k = 0 THEN None ELSE Some(lines[k])))

ExamKindRead == doc.exam_metadata[1].title.parsed_exam_type

\* C24: the exam kind read from the title line of page 1 is SUPPLEMENTARY when
\* the line holds the token SUPPLEMENTARY and REGULAR in every other case, a
\* line with neither word included; once a title line is found it is not null.
C24_ExamKindNeverNull ==
    CatalogBuilt /\ TitleLineOf(doc_input.pages) # None =>
        ExamKindRead = IF Contains(TitleLineOf(doc_input.pages)[1], "SUPPLEMENTARY")
                       THEN Some("SUPPLEMENTARY")
                       ELSE Some("REGULAR")

\* what the code does: without either word the kind stays null
C24_ExamKindOfNamedKinds ==
    CatalogBuilt /\ TitleLineOf(doc_input.pages) # None =>
        ExamKindRead = IF Contains(TitleLineOf(doc_input.pages)[1], "SUPPLEMENTARY")
                       THEN Some("SUPPLEMENTARY")
                       ELSE IF Contains(TitleLineOf(doc_input.pages)[1], "REGULAR")
                       THEN Some("REGULAR")
                       ELSE None

\* a title line with neither word, read with a null exam kind
C24_KindlessTitleNull ==
    /\ CatalogBuilt
    /\ TitleLineOf(doc_input.pages) = Some(KindlessTitleLine)
    /\ doc.exam_metadata[1].title.exam_title = Some(KindlessTitleLine)
    /\ doc.exam_metadata[1].title.exam_year = Some(2025)
    /\ ExamKindRead = None

\* ---------------------------------------------------------------------------
\* the outcome of a block, checked under SpecOutcome
\* ---------------------------------------------------------------------------
PairDecoded == ps.phase = "outcomes" /\ Len(ps.results) = 2

SameInternalRow == InternalRowOf(rec_input.blocks[1]) = InternalRowOf(rec_input.blocks[2])

\* two blocks with one I1 row decode to one outcome, and never to PASS when the
\* row carries FAIL
OutcomeFromInternalRow ==
    PairDecoded /\ SameInternalRow =>
        /\ ps.results[1] = ps.results[2]
        /\ \A k \in 1..2 :
              Contains(InternalRowOf(rec_input.blocks[k]), "FAIL") =>
                  ps.results[k] # Some("PASS")

\* C25: the outcome decoded for a student block depends on the block's I1 row
\* alone: two blocks with the same I1 row decode to the same outcome whatever
\* their other lines hold, and a block whose I1 row carries FAIL is never
\* decoded as PASS; for the full, the simplified and the lightweight extractor.
C25_OutcomeFromInternalRowOnly == OutcomeFromInternalRow

\* C25 for the full and the simplified extractor, which read the I1 line
C25_OutcomeFromInternalRowWhereRead ==
    rec_input.kind \in {"grades", "grades_simple"} => OutcomeFromInternalRow

\* the lightweight extractor on two blocks with the row 'I1 18 P 18 P (40)
\* FAIL': RAHUL's is decoded FAIL, PASCAL's is decoded PASS
C25_FailDecodedAsPass ==
    /\ PairDecoded
    /\ rec_input.kind = "simple"
    /\ InternalRowOf(rec_input.blocks[1]) = "I1 18 P 18 P (40) FAIL"
    /\ SameInternalRow
    /\ rec_input.blocks[1].names = <<"RAHUL">>
    /\ rec_input.blocks[2].names = <<"PASCAL">>
    /\ ps.results = <<Some("FAIL"), Some("PASS")>>

\* ---------------------------------------------------------------------------
\* the candidates of detect_horizontal_lines, checked under SpecCrop
\* ---------------------------------------------------------------------------
Midpoint(a, b) == DDivNat(DAdd(a, b), 2)

\* the drawn line from p1 to p2 is kept
LineKept(p1, p2, min_line_length) ==
    /\ DLess(DAbs(DSub(p1[2], p2[2])), DOfNat(3))
    /\ ~DLess(DAbs(DSub(p2[1], p1[1])), DOfNat(min_line_length))

\* the rectangle <<x0, y0, x1, y1>> is kept
RectKept(rect, min_line_length) ==
    /\ DLess(DSub(rect[4], rect[2]), DOfNat(3))
    /\ ~DLess(DSub(rect[3], rect[1]), DOfNat(min_line_length))

\* the representative y of the primitives that are kept, in drawing order
RECURSIVE ClaimedCandidates(_, _)
ClaimedCandidates(items, min_line_length) ==
    IF items = <<>> THEN <<>>
    ELSE (IF Head(items)[1] = "l" /\ LineKept(Head(items)[2], Head(items)[3], min_line_length)
          THEN <<Midpoint(Head(items)[2][2], Head(items)[3][2])>>
          ELSE IF Head(items)[1] = "re" /\ RectKept(Head(items)[2], min_line_length)
          THEN <<Midpoint(Head(items)[2][2], Head(items)[2][4])>>
          ELSE <<>>)
         \o ClaimedCandidates(Tail(items), min_line_length)

DetectedPage == crop_input.doc[crop.page_num + 1]

\* C26: detect_horizontal_lines keeps a drawn line exactly when the absolute
\* difference of its end y-values is below 3 and its horizontal span is at
\* least min_line_length, with the midpoint of the end y-values for its y, and
\* a rectangle exactly when its height is below 3 and its width at least
\* min_line_length, with the midpoint of top and bottom; a difference of
\* exactly 3 is turned away and a span of exactly min_line_length let in; no
\* other primitive gives anything, and a failure of the reading gives the
\* empty list.  The lines returned are these candidates, sorted and clustered.
C26_CandidatesAreLongLevelStrokes ==
    Detected =>
        crop.boundaries.detected_lines =
            IF ~DetectedPage.readable THEN <<>>
            ELSE _deduplicate_lines(crop_input.py,
                     SortFloats(ClaimedCandidates(Flatten(DetectedPage.paths),
                                                  crop.min_line_length)),
                     DOfNat(5))

\* the page of strokes on the edge of the tests, read with the minimum 100: the
\* spans of 200 and of 100 and the bar of height 2 are lines, at the y of their
\* middle; the slope of 3, the bar of height 3 and the upright stroke are not
C26_Witness ==
    /\ Detected
    /\ DetectedPage.paths = <<ThresholdStrokes>>
    /\ crop.min_line_length = 100
    /\ crop.boundaries.detected_lines = <<DOfNat(650), DOfNat(660), DOfNat(691)>>

\* the same page read with the minimum 200: the span of exactly 200 alone
C26_WitnessBoundaryMinimum ==
    /\ Detected
    /\ DetectedPage.paths = <<ThresholdStrokes>>
    /\ crop.min_line_length = 200
    /\ crop.boundaries.detected_lines = <<DOfNat(650)>>

\* ---------------------------------------------------------------------------
\* the student index of the crop, checked under SpecBatch
\* ---------------------------------------------------------------------------
InBatch == crop # Idle /\ crop.op = "process_single_pdf"

\* the student a call of crop_single_student was made for
CalledFor(call) == doc.all_students[call.idx]

\* the extractor kept every block of the page: the indexes it recorded for the
\* page's students are 0, 1, ... without a gap
NoBlockDropped(page_num) ==
    {doc.all_students[k].student_index :
        k \in {j \in 1..Len(doc.all_students) : doc.all_students[j].page_number = page_num}}
    = 0..(RecordsOnPage(page_num) - 1)

\* C27: for every student process_single_pdf passes to crop_single_student,
\* the student_index argument is the 0-based position, top to bottom, of the
\* student's block among the blocks find_student_blocks kept on the student's
\* page, the student_index the extractor recorded, also when an earlier block
\* of the page was dropped by the extractor as an incomplete record.
C27_CropIndexIsBlockPosition ==
    InBatch =>
        \A k \in 1..Len(crop.crop_calls) :
            /\ crop.crop_calls[k].page_num = CalledFor(crop.crop_calls[k]).page_number
            /\ crop.crop_calls[k].student_index = CalledFor(crop.crop_calls[k]).student_index

\* C27 for the pages of which the extractor dropped no block
C27_CropIndexWhenNoneDropped ==
    InBatch =>
        \A k \in 1..Len(crop.crop_calls) :
            /\ crop.crop_calls[k].page_num = CalledFor(crop.crop_calls[k]).page_number
            /\ NoBlockDropped(crop.crop_calls[k].page_num) =>
                  crop.crop_calls[k].student_index = CalledFor(crop.crop_calls[k]).student_index

\* the page whose first block has no name: the extractor drops it and records
\* the second block's student with student_index 1; the crop is called with 0
C27_SecondBlockCroppedAsFirst ==
    /\ InBatch
    /\ doc_input.pages = <<HalfDecodedPage>>
    /\ doc.phase = "returned"
    /\ Len(doc.all_students) = 1
    /\ doc.all_students[1].student_index = 1
    /\ crop.crop_calls = <<[idx |-> 1, page_num |-> 0, student_index |-> 0]>>

\* ---------------------------------------------------------------------------
\* the counters of process_single_pdf, checked under SpecBatch
\* ---------------------------------------------------------------------------
\* the step took one student through the loop
StudentHandled == InBatch /\ crop.phase = "students" /\ crop'.idx = crop.idx + 1

Increase(counter) == crop'.stats[counter] - crop.stats[counter]

\* one of students_failed and db_records_created goes up by one, the other stays
CountedOnce ==
    StudentHandled =>
        \/ Increase("students_failed") = 1 /\ Increase("db_records_created") = 0
        \/ Increase("students_failed") = 0 /\ Increase("db_records_created") = 1

\* students_failed goes up by one whatever becomes of the student
CountedFailed == StudentHandled => Increase("students_failed") = 1

RecordsWithinCrops == InBatch => crop.stats.db_records_created <= crop.stats.students_cropped

\* C28: in process_single_pdf every extracted student is accounted exactly
\* once: one student raises exactly one of students_failed and
\* db_records_created, so when the call returns True the students extracted
\* are the students failed plus the records created; and db_records_created
\* never exceeds students_cropped.
C28_EveryStudentCountedOnce ==
    /\ [][CountedOnce]_vars
    /\ [](BatchReturned => crop.stats.students_extracted =
                               crop.stats.students_failed + crop.stats.db_records_created)
    /\ []RecordsWithinCrops

\* what the code does: every student is counted as failed, the recorded ones
\* as recorded too
C28_EveryStudentCountedFailed ==
    /\ [][CountedFailed]_vars
    /\ [](BatchReturned => crop.stats.students_extracted = crop.stats.students_failed)
    /\ []RecordsWithinCrops

\* one student, cropped and recorded, and counted as failed as well
C28_RecordedAndFailed ==
    /\ BatchReturned
    /\ crop.outcomes = <<[page_number |-> 0, outcome |-> "cropped, recorded"]>>
    /\ crop.stats.students_extracted = 1
    /\ crop.stats.students_cropped = 1
    /\ crop.stats.db_records_created = 1
    /\ crop.stats.students_failed = 1

\* ---------------------------------------------------------------------------
\* process_all_pdfs, checked under SpecAll
\* ---------------------------------------------------------------------------
AllReturned == crop # Idle /\ crop.op = "process_all_pdfs" /\ crop.phase = "returned"

\* the files process_single_pdf leaves without counting them: those without
\* metadata, and those that open and hold no student
SkippedFiles ==
    {k \in 1..Len(crop_input.pdf_files) :
        \/ crop_input.pdf_files[k].metadata = None
        \/ /\ crop_input.pdf_files[k].opens
           /\ SimpleStudentsOf(crop_input.pdf_files[k].text) = <<>>}

EveryFileAttempted ==
    crop.attempted = [k \in 1..Len(crop_input.pdf_files) |-> k]

\* C29: process_all_pdfs attempts every PDF file of the downloads directory,
\* in order, whatever became of the earlier ones, and when it returns
\* pdfs_processed + pdfs_failed is the number of files found: each file is
\* counted once, as processed or as failed.
C29_EveryPdfAttemptedAndCounted ==
    AllReturned =>
        /\ EveryFileAttempted
        /\ crop.stats.pdfs_processed + crop.stats.pdfs_failed = Len(crop_input.pdf_files)

\* what the code does: every file is attempted, and counted unless it has no
\* metadata or no student
C29_CountedUnlessSkipped ==
    AllReturned =>
        /\ EveryFileAttempted
        /\ crop.stats.pdfs_processed + crop.stats.pdfs_failed =
               Len(crop_input.pdf_files) - Cardinality(SkippedFiles)
        /\ crop.stats.pdfs_processed =
               Cardinality({k \in 1..Len(crop.results) : crop.results[k]})

\* a file without metadata, then a file that is processed: both attempted, one
\* counted
C29_SkippedFileUncounted ==
    /\ AllReturned
    /\ crop_input.pdf_files = <<[ResultPdf EXCEPT !.metadata = None], ResultPdf>>
    /\ crop.attempted = <<1, 2>>
    /\ crop.results = <<FALSE, TRUE>>
    /\ crop.stats.pdfs_processed = 1
    /\ crop.stats.pdfs_failed = 0

\* ---------------------------------------------------------------------------
\* generate_student_filename, checked under SpecNames
\* ---------------------------------------------------------------------------
Naming == crop # Idle /\ crop.op = "generate_student_filename"

\* the names the calls so far have returned are pairwise distinct and all in
\* existing_files
ReturnedNamesDistinct ==
    \A j, k \in 1..Len(crop.returned) :
        (j # k /\ crop.returned[j] # None) => crop.returned[j] # crop.returned[k]

ReturnedNamesKept ==
    \A k \in 1..Len(crop.returned) :
        crop.returned[k] # None => crop.returned[k][1] \in crop.existing_files

CounterName(stem, counter) == stem \o "_" \o StrOfNat(counter) \o ".pdf"

\* the name the claim gives a student: the plain name if it is unused, else
\* the name with the smallest counter from 2 on that is unused
IsClaimedName(name, stem, existing_files) ==
    IF (stem \o ".pdf") \notin existing_files
    THEN name = stem \o ".pdf"
    ELSE \E counter \in 2..(Cardinality(existing_files) + 2) :
            /\ name = CounterName(stem, counter)
            /\ name \notin existing_files
            /\ \A smaller \in 2..(counter - 1) :
                  CounterName(stem, smaller) \in existing_files

\* a call that returns a name returns the claimed one, a new one, and adds it
\* and nothing else to the set; a call that raises leaves the set as it was
NameCallShape ==
    (Naming /\ crop' # crop) =>
        With(crop'.returned[Len(crop'.returned)], LAMBDA filename :
            IF filename = None
            THEN crop'.existing_files = crop.existing_files
            ELSE /\ IsClaimedName(filename[1],
                        FilenameStem(crop'.students[Len(crop'.students)],
                                     crop_input.semester),
                        crop.existing_files)
                 /\ filename[1] \notin crop.existing_files
                 /\ crop'.existing_files = crop.existing_files \cup {filename[1]})

\* C30: for calls of generate_student_filename that share one existing_files
\* set, every name returned differs from all names returned before and is in
\* existing_files after the call; a repeated base name gets the smallest
\* counter suffix _2, _3, ... not yet used; existing_files only grows.
C30_FilenamesUnique ==
    /\ [](Naming => (ReturnedNamesDistinct /\ ReturnedNamesKept))
    /\ [][NameCallShape /\ (Naming => crop.existing_files \subseteq crop'.existing_files)]_vars

\* three calls for one student with the plain name and counter 3 taken: the
\* counters 2, 4 and 5 are given in turn
C30_Witness ==
    /\ Naming
    /\ crop.students = <<RegularStudent, RegularStudent, RegularStudent>>
    /\ crop.returned = <<Some("MU0098765_123456789_Semester-III_Regular_MU101_2.pdf"),
                         Some("MU0098765_123456789_Semester-III_Regular_MU101_4.pdf"),
                         Some("MU0098765_123456789_Semester-III_Regular_MU101_5.pdf")>>
    /\ Cardinality(crop.existing_files) = 5
====
